---- MODULE Spec2Model ----
(* Verification model of the itihas indexer: the block streamers            *)
(* (indexer/src/grpc.rs, poller.rs, streamer.rs), the writer pipeline        *)
(* (messenger.rs), the storage DAO (db.rs) and StateUpdate (types.rs).      *)
EXTENDS Integers, Sequences, FiniteSets, TLC

(***************************************************************************)
(* Bounds                                                                  *)
(***************************************************************************)
MaxSlot == 4
MaxConcurrentFetches == 2
MaxConnects == 2
\* types.rs MAX_SQL_INSERTS (5000), scaled down so that batches split into chunks
MAX_SQL_INSERTS == 1
MaxBatch == 2
MaxClock == 1
MaxDbFailures == 1
MaxUpdates == 3
NumWorkers == 2
\* failed attempts of one get_block call
MaxAttempts == 1

(***************************************************************************)
(* State                                                                   *)
(***************************************************************************)
VARIABLES
    produced,               \* chain: slots 1..MaxSlot that hold a block (others are skipped)
    malformed,              \* chain: produced slots whose polled payload fails to parse
    head,                   \* chain: current head slot (get_slot)
    grpc_state,             \* get_grpc_block_stream: "init" (not created yet) | "start" (about to
                            \* yield the default block) | "streaming"
    push_cursor,            \* highest slot the push subscription has delivered
    connects,               \* number of (re)connections of the push subscription so far
    index_recent,           \* BlockStreamConfig.index_recent
    config_last_indexed_slot, \* BlockStreamConfig.last_indexed_slot
    last_indexed_slot_at_start, \* continously_index_new_blocks: the slot handed to load_block_stream
    last_indexed_slot,      \* the streamer's last_indexed_slot
    rpc_poll_stream,        \* Option<poll stream>: NoStream or the poll stream's state
    emitted,                \* history: the blocks yielded by the streamer, in order
    pushed,                 \* history: the slots of the block frames the push feed delivered
    gap,                    \* history: the gap episodes, in order
    db_blocks,              \* storage: the committed rows of table blocks
    db_transfers,           \* storage: the committed rows of table token_transfers
    now,                    \* the clock read by chrono::Utc::now()
    db_failures,            \* number of database errors (connection, timeout) so far
    dao,                    \* the DAO call in progress and its open DB transaction
    stored_meta,            \* history: the BlockMetadata values of the calls that committed
    stored_txs,             \* history: the Transaction values of the calls that committed
    merge_in,               \* the Vec<StateUpdate> handed to merge_updates
    merge_out,              \* the StateUpdate it returned
    parse_in,               \* the frame or RPC block handed to a block parser
    parse_out,              \* what the parser returned
    sent,                   \* streamer loop: number of blocks handed to send_block_batches
    block_chan,             \* Messenger: the chunks in the block channel
    txn_chan,               \* Messenger: the chunks in the transaction channel
    block_rx_lock,          \* holder of the block receiver's mutex (0: free)
    txn_rx_lock,            \* holder of the transaction receiver's mutex (0: free)
    block_workers,          \* block_worker tasks: position and chunk in hand
    txn_workers,            \* transaction_worker tasks: position and chunk in hand
    main_pc,                \* main: "ctrl_c" (waiting for the signal) | "returned"
    streamer_task,          \* the task running continously_index_new_blocks
    page_in,                \* the arguments of a call of Api::validate_pagination
    page_out,               \* what the call returned
    api_in,                 \* the request of an API call
    api_out,                \* the response of the call
    pages                   \* a client reading a result page by page: the pages it got

\* fixed after start-up: the chain's content and the configuration
cfgvars == <<produced, malformed, index_recent, config_last_indexed_slot>>
\* the push subscription
grpcvars == <<grpc_state, push_cursor, connects, pushed>>

svars == <<cfgvars, grpcvars, head, last_indexed_slot_at_start, last_indexed_slot,
           rpc_poll_stream, emitted, gap>>

\* the storage and the DAO caller
dvars == <<db_blocks, db_transfers, now, db_failures, dao, stored_meta, stored_txs>>

\* the arguments and result of merge_updates
mvars == <<merge_in, merge_out, parse_in, parse_out>>

\* the writer pipeline
wvars == <<sent, block_chan, txn_chan, block_rx_lock, txn_rx_lock,
           block_workers, txn_workers>>

\* the process: main and the streamer task
pvars == <<main_pc, streamer_task>>

\* the API: the calls and their results
avars == <<page_in, page_out, api_in, api_out, pages>>

vars == <<svars, dvars, mvars, wvars, pvars, avars>>

\* what the streamers, the DAO caller and merge_updates leave alone
xstream == <<dvars, mvars, wvars, pvars, avars>>
xdao == <<svars, mvars, wvars, pvars, avars>>
xmerge == <<svars, dvars, wvars, pvars, avars>>

(***************************************************************************)
(* types.rs: BlockInfo / BlockMetadata (the fields the streamers read)     *)
(***************************************************************************)
Slots == 0..MaxSlot

Max(S) == CHOOSE x \in S : \A y \in S : y <= x

\* BlockInfo::default(): every field zero.
DefaultBlock == [slot |-> 0, parent_slot |-> 0]

\* the slots that hold a block; slot 0 is the genesis block
Existing == produced \cup {0}

\* parent_slot of the block at slot s: the closest earlier slot that holds a block
ParentOf(s) == IF s = 0 THEN 0 ELSE Max({p \in Existing : p < s})

ChainBlock(s) == [slot |-> s, parent_slot |-> ParentOf(s)]

\* the state of one poll stream (the locals of the stream! generator)
NoStream == [on |-> FALSE, forever |-> FALSE, current_slot_to_fetch |-> 0,
             end_block_slot |-> 0, phase |-> "none", inflight |-> {},
             results |-> <<>>, blocks_to_yield |-> <<>>,
             attempt_counter |-> [s \in Slots |-> 0]]

(***************************************************************************)
(* types.rs: Transaction, StateUpdate; the blocks handed to the writer     *)
(***************************************************************************)
\* one InstructionGroup, by the fields of its outer instruction that are stored
Group(src, dst, mint, amount) ==
    [source_address |-> src, destination_address |-> dst, mint |-> mint, amount |-> amount]

Txn(sig, block_time, slot, groups) ==
    [signature |-> sig, block_time |-> block_time, slot |-> slot, error |-> "none",
     instruction_groups |-> groups]

T1  == Txn(1, 10, 1, <<Group("a", "b", "m", 5)>>)
\* the same signature, accounts and block time as T1 with another amount
T1v == Txn(1, 10, 1, <<Group("a", "b", "m", 7)>>)
T2  == Txn(2, 10, 1, <<Group("a", "b", "m", 1), Group("b", "a", "m", 2)>>)
T3  == Txn(3, 20, 2, <<Group("a", "b", "n", 3)>>)

Transactions == {T1, T1v, T2, T3}

Meta(slot, parent_slot, block_time, block_height) ==
    [slot |-> slot, parent_slot |-> parent_slot, block_time |-> block_time,
     block_height |-> block_height]

B1  == [metadata |-> Meta(1, 0, 10, 1), transactions |-> <<T1, T2>>]
B2  == [metadata |-> Meta(2, 1, 20, 2), transactions |-> <<T3>>]
\* a second payload for slot 1 (same slot and block time, other content)
B1v == [metadata |-> Meta(1, 0, 10, 9), transactions |-> <<T1v>>]

Blocks == {B1, B2, B1v}

\* the blocks the DAO is called with directly
DaoBlocks == {B1, B1v}

\* StateUpdate::default(): the empty transaction set
DefaultStateUpdate == {}

\* variant: each update replaces what was merged so far
merge_updates_last(updates) ==
    IF updates = <<>> THEN DefaultStateUpdate ELSE updates[Len(updates)]

RECURSIVE MergeFrom(_, _)
MergeFrom(merged, updates) ==
    IF updates = <<>> THEN merged
    ELSE MergeFrom(merged \cup Head(updates), Tail(updates))

\* StateUpdate::merge_updates: extend a default update by every update in turn
merge_updates(updates) == MergeFrom(DefaultStateUpdate, updates)

\* parser.rs parse_transaction: the update holding just this transaction
parse_transaction(tx) == merge_updates(<<>>) \cup {tx}

\* parser.rs parse_block_state_update
parse_block_state_update(block) ==
    merge_updates([i \in 1..Len(block.transactions) |->
                      parse_transaction(block.transactions[i])])

\* the orders in which a HashSet can be iterated: every enumeration
RECURSIVE SeqsOf(_)
SeqsOf(S) ==
    IF S = {} THEN {<<>>}
    ELSE UNION {{<<x>> \o q : q \in SeqsOf(S \ {x})} : x \in S}

\* slice::chunks(n)
RECURSIVE Chunks(_, _)
Chunks(seq, n) ==
    IF Len(seq) = 0 THEN <<>>
    ELSE IF Len(seq) <= n THEN <<seq>>
    ELSE <<SubSeq(seq, 1, n)>> \o Chunks(SubSeq(seq, n + 1, Len(seq)), n)

(***************************************************************************)
(* db.rs and the schema (migration m20240802_114508_init)                  *)
(***************************************************************************)
PkBlocks == {"slot", "block_time"}
PkTokenTransfers == {"signature", "source_address", "destination_address", "block_time"}

\* the ON CONFLICT targets of the two inserts
ConflictBlocks == {"slot", "block_time"}
ConflictTokenTransfers == {"signature", "block_time", "source_address", "destination_address"}

KeyOf(row, cols) == [c \in cols |-> row[c]]

\* NaiveDateTime::from_timestamp(secs, 0) as a UTC timestamp with time zone
ToTimestampTz(secs) == [secs |-> secs, nanos |-> 0, offset |-> 0]

\* blocks::ActiveModel of a BlockMetadata
BlockModel(m) ==
    [slot |-> m.slot, parent_slot |-> m.parent_slot, block_time |-> m.block_time,
     block_height |-> m.block_height]

\* token_transfers::ActiveModel of one instruction group of a transaction
TransferModel(tx, g, created_at) ==
    [signature |-> tx.signature, slot |-> tx.slot, error |-> tx.error,
     block_time |-> ToTimestampTz(tx.block_time), created_at |-> created_at,
     source_address |-> g.source_address,
     destination_address |-> g.destination_address,
     mint_address |-> g.mint, amount |-> g.amount]

\* transactions.iter().flat_map(groups): one model per instruction group
RECURSIVE TransferModels(_, _)
TransferModels(txs, created_at) ==
    IF txs = <<>> THEN <<>>
    ELSE [i \in 1..Len(Head(txs).instruction_groups) |->
              TransferModel(Head(txs), Head(txs).instruction_groups[i], created_at)]
         \o TransferModels(Tail(txs), created_at)

\* variant: INSERT ... ON CONFLICT (target) DO UPDATE: the new row replaces the old
RECURSIVE InsertUpsert(_, _, _, _)
InsertUpsert(table, rows, target, pk) ==
    IF rows = <<>> THEN [ok |-> TRUE, table |-> table]
    ELSE LET r == Head(rows)
             same == {x \in table : KeyOf(x, target) = KeyOf(r, target)}
         IN  InsertUpsert((table \ same) \cup {r}, Tail(rows), target, pk)

\* variant: a plain INSERT: a row whose primary key exists fails the statement
RECURSIVE InsertPlain(_, _, _, _)
InsertPlain(table, rows, target, pk) ==
    IF rows = <<>> THEN [ok |-> TRUE, table |-> table]
    ELSE LET r == Head(rows)
         IN  IF \E x \in table : KeyOf(x, pk) = KeyOf(r, pk)
             THEN [ok |-> FALSE, table |-> table]
             ELSE InsertPlain(table \cup {r}, Tail(rows), target, pk)

\* INSERT ... ON CONFLICT (target) DO NOTHING, row by row: a row that
\* conflicts on the target is skipped; a row that would break the primary
\* key without matching the target fails the statement
RECURSIVE InsertDoNothing(_, _, _, _)
InsertDoNothing(table, rows, target, pk) ==
    IF rows = <<>> THEN [ok |-> TRUE, table |-> table]
    ELSE LET r == Head(rows)
         IN  IF \E x \in table : KeyOf(x, target) = KeyOf(r, target)
             THEN InsertDoNothing(table, Tail(rows), target, pk)
             ELSE IF \E x \in table : KeyOf(x, pk) = KeyOf(r, pk)
             THEN [ok |-> FALSE, table |-> table]
             ELSE InsertDoNothing(table \cup {r}, Tail(rows), target, pk)

\* the statements of index_block_metadatas_without_commit: one per chunk
StmtsMeta(metas) ==
    [i \in 1..Len(Chunks(metas, MAX_SQL_INSERTS)) |->
        [table |-> "blocks", metas |-> Chunks(metas, MAX_SQL_INSERTS)[i], txs |-> <<>>]]

\* the statement of index_transactions_without_commit: none when there is no model
StmtsChunk(txs) ==
    IF TransferModels(txs, 0) = <<>> THEN <<>>
    ELSE <<[table |-> "token_transfers", metas |-> <<>>, txs |-> txs]>>

RECURSIVE StmtsChunks(_)
StmtsChunks(chunks) ==
    IF chunks = <<>> THEN <<>>
    ELSE StmtsChunk(Head(chunks)) \o StmtsChunks(Tail(chunks))

\* index_transaction_update: nothing for the default update, else one insert
\* per chunk of the transactions taken in the set's iteration order
StmtsUpdate(state_update, order) ==
    IF state_update = DefaultStateUpdate THEN <<>>
    ELSE StmtsChunks(Chunks(order, MAX_SQL_INSERTS))

MetasOf(batch) == [i \in 1..Len(batch) |-> batch[i].metadata]

\* the merged state update of a batch (index_block_batch, send_block_batch)
UpdateOf(batch) ==
    merge_updates([i \in 1..Len(batch) |-> parse_block_state_update(batch[i])])

\* tx.execute(query) on the transaction's view of the two tables
ExecStmt(st, blocks, transfers, created_at) ==
    IF st.table = "blocks"
    THEN LET r == InsertDoNothing(blocks,
                      [i \in 1..Len(st.metas) |-> BlockModel(st.metas[i])],
                      ConflictBlocks, PkBlocks)
         IN  [ok |-> r.ok, blocks |-> r.table, transfers |-> transfers]
    ELSE LET r == InsertDoNothing(transfers, TransferModels(st.txs, created_at),
                      ConflictTokenTransfers, PkTokenTransfers)
         IN  [ok |-> r.ok, blocks |-> blocks, transfers |-> r.table]

Range(seq) == {seq[i] : i \in 1..Len(seq)}

Batches == UNION {[1..n -> DaoBlocks] : n \in 1..MaxBatch}

DaoIdle == [stage |-> "idle", op |-> "none", metas |-> {}, txs |-> {}, stmts |-> <<>>,
            blocks |-> {}, transfers |-> {}, result |-> "none", replay |-> FALSE,
            batch |-> <<>>, attempt |-> 0]

\* where a call stands after an error: index_block_batches logs it, sleeps
\* and goes round its loop; every other entry point returns the error
AfterError(op) == IF op = "index_block_batches" THEN "retry" ELSE "idle"

DaoInit ==
    /\ db_blocks = {} /\ db_transfers = {}
    /\ now = 0 /\ db_failures = 0
    /\ dao = DaoIdle
    /\ stored_meta = {} /\ stored_txs = {}

\* self.db.begin() and the statements the call is going to execute
DaoOpen(op, metas, txs, stmts) ==
    /\ dao.stage = "idle"
    /\ dao' = [stage |-> "open", op |-> op, metas |-> metas, txs |-> txs,
               stmts |-> stmts, blocks |-> db_blocks, transfers |-> db_transfers,
               result |-> "none",
               replay |-> (metas \subseteq stored_meta /\ txs \subseteq stored_txs),
               batch |-> <<>>, attempt |-> 1]
    /\ UNCHANGED <<db_blocks, db_transfers, now, db_failures, stored_meta, stored_txs>>
    /\ UNCHANGED xdao

\* Dao::index_block(block)
index_block(block, order) ==
    /\ order \in SeqsOf(parse_block_state_update(block))
    /\ DaoOpen("index_block", {block.metadata}, Range(block.transactions),
               StmtsMeta(<<block.metadata>>)
                   \o StmtsUpdate(parse_block_state_update(block), order))

\* Dao::index_block_batch(block_batch)
index_block_batch(batch, order) ==
    /\ order \in SeqsOf(UpdateOf(batch))
    /\ DaoOpen("index_block_batch", Range(MetasOf(batch)), UpdateOf(batch),
               StmtsMeta(MetasOf(batch)) \o StmtsUpdate(UpdateOf(batch), order))

\* Dao::index_block_metadatas(blocks), on a chunk the block worker received
index_block_metadatas(metas) ==
    DaoOpen("index_block_metadatas", Range(metas), {}, StmtsMeta(metas))

\* Dao::index_transaction(transactions), on a chunk the transaction worker received
index_transaction(txs) ==
    DaoOpen("index_transaction", {}, Range(txs), StmtsChunk(txs))

\* the next insert of the open transaction runs; a constraint error rolls back
DaoExec ==
    /\ dao.stage = "open" /\ dao.stmts # <<>>
    /\ LET r == ExecStmt(Head(dao.stmts), dao.blocks, dao.transfers, now)
       IN  dao' = IF r.ok
                  THEN [dao EXCEPT !.stmts = Tail(@), !.blocks = r.blocks,
                                   !.transfers = r.transfers]
                  ELSE [dao EXCEPT !.stage = AfterError(dao.op), !.result = "sql_error"]
    /\ UNCHANGED <<db_blocks, db_transfers, now, db_failures, stored_meta, stored_txs>>
    /\ UNCHANGED xdao

\* txn.commit(): the inserted rows become the stored rows
DaoCommit ==
    /\ dao.stage = "open" /\ dao.stmts = <<>>
    /\ db_blocks' = dao.blocks
    /\ db_transfers' = dao.transfers
    /\ dao' = [dao EXCEPT !.stage = "idle", !.result = "ok"]
    /\ stored_meta' = stored_meta \cup dao.metas
    /\ stored_txs' = stored_txs \cup dao.txs
    /\ UNCHANGED <<now, db_failures>>
    /\ UNCHANGED xdao

\* variant: the inserts that ran before the error stay in the tables
DaoFailPartial ==
    /\ dao.stage = "open"
    /\ db_failures < MaxDbFailures
    /\ db_failures' = db_failures + 1
    /\ dao' = [dao EXCEPT !.stage = AfterError(dao.op), !.result = "db_error"]
    /\ db_blocks' = dao.blocks
    /\ db_transfers' = dao.transfers
    /\ UNCHANGED <<now, stored_meta, stored_txs>>
    /\ UNCHANGED xdao

\* a database error at begin, at an insert or at commit: the call returns
\* the error and the dropped transaction is rolled back
DaoFail ==
    /\ dao.stage = "open"
    /\ db_failures < MaxDbFailures
    /\ db_failures' = db_failures + 1
    /\ dao' = [dao EXCEPT !.stage = AfterError(dao.op), !.result = "db_error"]
    /\ UNCHANGED <<db_blocks, db_transfers, now, stored_meta, stored_txs>>
    /\ UNCHANGED xdao

\* time passes
Tick ==
    /\ now < MaxClock
    /\ now' = now + 1
    /\ UNCHANGED <<db_blocks, db_transfers, db_failures, dao, stored_meta, stored_txs>>
    /\ UNCHANGED xdao

StreamIdle ==
    /\ produced = {} /\ malformed = {}
    /\ config_last_indexed_slot = 0
    /\ last_indexed_slot = 0
    /\ last_indexed_slot_at_start = 0
    /\ head = 0
    /\ grpc_state = "start"
    /\ push_cursor = 0
    /\ connects = 0
    /\ index_recent = TRUE
    /\ rpc_poll_stream = NoStream
    /\ emitted = <<>>
    /\ pushed = {}
    /\ gap = <<>>

ParseIdle == parse_in = <<>> /\ parse_out = [done |-> FALSE]

MergeIdle ==
    /\ merge_in = <<>> /\ merge_out = [done |-> FALSE, transactions |-> {}]
    /\ ParseIdle

Workers == 1..NumWorkers

\* Messenger::new and run: empty channels, every worker at the top of its loop
WriterInit ==
    /\ sent = 0
    /\ block_chan = <<>> /\ txn_chan = <<>>
    /\ block_rx_lock = 0 /\ txn_rx_lock = 0
    /\ block_workers = [w \in Workers |-> [pc |-> "select", chunk |-> <<>>]]
    /\ txn_workers = [w \in Workers |-> [pc |-> "select", chunk |-> <<>>]]

\* Option<T>: None and Some(x)
None == <<>>

Some(x) == <<x>>

\* no API call made
NoPage == [limit |-> None, page |-> None, before |-> None, after |-> None]

NoCall == [done |-> FALSE, kind |-> "none", err |-> <<>>, value |-> <<>>]

\* no enumeration under way
NoScan == [on |-> FALSE, mint |-> <<>>, limit |-> 0, table |-> {}, got |-> <<>>]

ApiIdle ==
    /\ page_in = NoPage /\ page_out = NoCall
    /\ api_in = [op |-> "none"] /\ api_out = NoCall
    /\ pages = NoScan

\* main has spawned the streamer task and waits for the signal
ProcIdle == main_pc = "ctrl_c" /\ streamer_task = "running"

(***************************************************************************)
(* poller.rs: PollerStreamer                                               *)
(***************************************************************************)
\* get_block: Ok(block) for a slot that holds a well-formed block, Err for a
\* skipped slot (SKIPPED_BLOCK_ERRORS) and for a payload the parser rejects
get_block(s) ==
    IF s \in Existing /\ s \notin malformed
    THEN [ok |-> TRUE, block |-> ChainBlock(s)]
    ELSE [ok |-> FALSE, block |-> DefaultBlock]

\* the first slot the poll stream fetches
StartSlot(last, latest_slot) ==
    LET current_slot_to_fetch == IF last = 0 THEN 0 ELSE last + 1
    IN  IF latest_slot # 0 /\ latest_slot > current_slot_to_fetch
        THEN latest_slot ELSE current_slot_to_fetch

\* variant: every stream polls forever
polls_forever_always(end_slot) == TRUE

\* the flag that makes the loop stop at end_block_slot: a stream created
\* with an end slot is bounded
polls_forever(end_slot) == end_slot = -1

\* variant: the end slot taken as exclusive
get_poller_block_stream_excl(last, latest_slot, end_slot) ==
    [on |-> TRUE,
     forever |-> polls_forever(end_slot),
     current_slot_to_fetch |-> StartSlot(last, latest_slot),
     end_block_slot |-> IF polls_forever(end_slot) THEN 0 ELSE end_slot - 1,
     phase |-> IF polls_forever(end_slot) THEN "new" ELSE "top",
     inflight |-> {}, results |-> <<>>, blocks_to_yield |-> <<>>,
     attempt_counter |-> [s \in Slots |-> 0]]

\* the stream as created: the cursor at the start slot; a stream without an
\* end slot reads the head on its first poll (phase "new")
get_poller_block_stream(last, latest_slot, end_slot) ==
    [on |-> TRUE,
     forever |-> polls_forever(end_slot),
     current_slot_to_fetch |-> StartSlot(last, latest_slot),
     end_block_slot |-> IF polls_forever(end_slot) THEN 0 ELSE end_slot,
     phase |-> IF polls_forever(end_slot) THEN "new" ELSE "top",
     inflight |-> {}, results |-> <<>>, blocks_to_yield |-> <<>>,
     attempt_counter |-> [s \in Slots |-> 0]]

\* Vec<Result<BlockInfo, _>>.into_iter().flatten(): the Ok values, in order
RECURSIVE Flatten(_)
Flatten(rs) ==
    IF rs = <<>> THEN <<>>
    ELSE IF Head(rs).ok THEN <<Head(rs).block>> \o Flatten(Tail(rs))
         ELSE Flatten(Tail(rs))

\* insert b into a sequence sorted by slot, after the entries with the same slot
RECURSIVE InsertBySlot(_, _)
InsertBySlot(b, sorted) ==
    IF sorted = <<>> THEN <<b>>
    ELSE IF b.slot < Head(sorted).slot THEN <<b>> \o sorted
         ELSE <<Head(sorted)>> \o InsertBySlot(b, Tail(sorted))

RECURSIVE SortFrom(_, _)
SortFrom(bs, acc) ==
    IF bs = <<>> THEN acc ELSE SortFrom(Tail(bs), InsertBySlot(Head(bs), acc))

\* variant: the batch left in completion order
sort_by_slot_none(bs) == bs

\* blocks_to_yield.sort_by_key(|block| block.metadata.slot)
sort_by_slot(bs) == SortFrom(bs, <<>>)

\* variant: the window takes one fetch more
WindowOver(p) ==
    {s \in p.current_slot_to_fetch .. p.end_block_slot :
        s <= p.current_slot_to_fetch + MaxConcurrentFetches}

\* the window of fetches issued in one round of the loop
Window(p) ==
    {s \in p.current_slot_to_fetch .. p.end_block_slot :
        s < p.current_slot_to_fetch + MaxConcurrentFetches}

\* the stream has run to its end (the break of the bounded loop)
PollerEnded(p) ==
    /\ p.on /\ p.phase = "top"
    /\ p.current_slot_to_fetch > p.end_block_slot /\ ~p.forever

\* end_block_slot = fetch_current_slot(...): on the first poll, and again
\* whenever the cursor has passed end_block_slot
PollerRefresh(p, current_head) ==
    [p EXCEPT !.end_block_slot = current_head, !.phase = "top"]

\* push up to max_concurrent_block_fetches fetches, advancing the cursor
PollerIssue(p) ==
    [p EXCEPT !.inflight = Window(p),
              !.current_slot_to_fetch = @ + Cardinality(Window(p)),
              !.results = <<>>,
              !.attempt_counter = [s \in Slots |-> 0],
              !.phase = "fetching"]

\* variant: the fetch gives up on an error that is not a skip
get_block_failed_giveup(p, s) ==
    LET rs == Append(p.results, [ok |-> FALSE, block |-> DefaultBlock])
        bs == sort_by_slot(Flatten(rs))
    IN  IF p.inflight = {s}
        THEN [p EXCEPT !.inflight = {}, !.results = rs,
                       !.blocks_to_yield = bs,
                       !.phase = IF bs = <<>> THEN "top" ELSE "yielding"]
        ELSE [p EXCEPT !.inflight = @ \ {s}, !.results = rs]

\* get_block: the request for slot s fails with an error that is not a skip;
\* attempt_counter += 1 and the loop sends the request again
get_block_failed(p, s) == [p EXCEPT !.attempt_counter[s] = @ + 1]

\* one fetch of the window completes (FuturesUnordered: any order); when the
\* last one does, the results are flattened and sorted
PollerFetched(p, s) ==
    LET rs == Append(p.results, get_block(s))
        bs == sort_by_slot(Flatten(rs))
    IN  IF p.inflight = {s}
        THEN [p EXCEPT !.inflight = {}, !.results = rs,
                       !.blocks_to_yield = bs,
                       !.phase = IF bs = <<>> THEN "top" ELSE "yielding"]
        ELSE [p EXCEPT !.inflight = @ \ {s}, !.results = rs]

\* yield block: the stream hands over the next block of the sorted batch
PollerYield(p) ==
    [p EXCEPT !.blocks_to_yield = Tail(@),
              !.phase = IF Len(p.blocks_to_yield) = 1 THEN "top" ELSE "yielding"]

(***************************************************************************)
(* grpc.rs: GrpcStreamer                                                   *)
(***************************************************************************)
\* get_grpc_block_stream: the items grpc_stream.next() can produce now.  At
\* the start of every (re)connection the stream yields BlockInfo::default();
\* once subscribed it yields the parsed block frames, newest last.
GrpcItems ==
    IF grpc_state = "init" THEN {}
    ELSE IF grpc_state = "start"
    THEN IF connects < MaxConnects THEN {DefaultBlock} ELSE {}
    ELSE {ChainBlock(s) : s \in {t \in produced : push_cursor < t /\ t <= head}}

\* the effect of grpc_stream.next() returning item b on the push stream; a
\* new subscription delivers the blocks produced after it was made
GrpcAdvance(b) ==
    IF grpc_state = "start"
    THEN /\ connects' = connects + 1
         /\ \/ /\ grpc_state' = "start"
               /\ UNCHANGED push_cursor
            \/ /\ grpc_state' = "streaming"
               /\ push_cursor' = IF head > push_cursor THEN head ELSE push_cursor
         /\ UNCHANGED pushed
    ELSE /\ push_cursor' = b.slot
         /\ pushed' = pushed \cup {b.slot}
         /\ UNCHANGED <<connects, grpc_state>>

\* a transport error or a failed pong: the subscription is torn down and the
\* stream loops back to its start
GrpcDisconnect ==
    /\ grpc_state = "streaming"
    /\ grpc_state' = "start"
    /\ UNCHANGED <<xstream, cfgvars, head, push_cursor, connects, pushed,
                   last_indexed_slot_at_start, last_indexed_slot, rpc_poll_stream,
                   emitted, gap>>

\* the chain produces (or skips) the next slot
ChainAdvance ==
    /\ head < MaxSlot
    /\ head' = head + 1
    /\ UNCHANGED <<xstream, cfgvars, grpcvars, last_indexed_slot_at_start, last_indexed_slot,
                   rpc_poll_stream, emitted, gap>>

\* continously_index_new_blocks over the GrpcStreamer: read the head, default
\* the start to it, load_block_stream(last_indexed_slot_at_start); the
\* composed stream takes its last_indexed_slot from the configuration
StreamStart ==
    /\ grpc_state = "init"
    /\ last_indexed_slot_at_start' =
           IF config_last_indexed_slot = 0 THEN head ELSE config_last_indexed_slot
    /\ grpc_state' = "start"
    /\ UNCHANGED <<xstream, cfgvars, head, push_cursor, connects, pushed,
                   last_indexed_slot, rpc_poll_stream, emitted, gap>>

\* variant: last_indexed_slot takes the parent slot of the block
YieldParent(b, src) ==
    /\ last_indexed_slot' = b.parent_slot
    /\ emitted' = Append(emitted, [slot |-> b.slot, parent_slot |-> b.parent_slot, src |-> src])

\* last_indexed_slot = block.metadata.slot; yield block
Yield(b, src) ==
    /\ last_indexed_slot' = b.slot
    /\ emitted' = Append(emitted, [slot |-> b.slot, parent_slot |-> b.parent_slot, src |-> src])

\* variant: a block whose parent is at or below last_indexed_slot passes
ContinuousLe(b, last) == b.parent_slot <= last

\* the continuity test of the three yield sites
Continuous(b, last) == b.parent_slot = last

\* get_grpc_stream_with_rpc_fallback, rpc_poll_stream = None: wait for the
\* next pushed block; yield it on continuity, else start the poll fallback
PushOnly(b) ==
    /\ ~rpc_poll_stream.on
    /\ b \in GrpcItems
    /\ GrpcAdvance(b)
    /\ IF b.slot = 0
       THEN UNCHANGED <<last_indexed_slot, emitted, rpc_poll_stream, gap>>
       ELSE IF Continuous(b, last_indexed_slot)
       THEN /\ Yield(b, "push")
            /\ UNCHANGED <<rpc_poll_stream, gap>>
       ELSE /\ rpc_poll_stream' =
                   get_poller_block_stream(last_indexed_slot, 0, b.slot)
            /\ gap' = Append(gap, [from |-> last_indexed_slot, to |-> b.slot,
                                    at |-> Len(emitted)])
            /\ UNCHANGED <<last_indexed_slot, emitted>>
    /\ UNCHANGED <<xstream, cfgvars, head, last_indexed_slot_at_start>>

\* select(...) resolves Left((Some(grpc_block), _))
SelectLeft(b) ==
    /\ rpc_poll_stream.on
    /\ b \in GrpcItems
    /\ GrpcAdvance(b)
    /\ IF Continuous(b, last_indexed_slot)
       THEN /\ Yield(b, "push")
            /\ rpc_poll_stream' = NoStream
       ELSE UNCHANGED <<last_indexed_slot, emitted, rpc_poll_stream>>
    /\ UNCHANGED <<xstream, cfgvars, head, last_indexed_slot_at_start, gap>>

\* select(...) resolves Right((Some(rpc_block), _))
SelectRightBlock ==
    /\ rpc_poll_stream.on
    /\ rpc_poll_stream.phase = "yielding"
    /\ LET b == Head(rpc_poll_stream.blocks_to_yield)
       IN  /\ rpc_poll_stream' = PollerYield(rpc_poll_stream)
           /\ IF Continuous(b, last_indexed_slot)
              THEN Yield(b, "poll")
              ELSE UNCHANGED <<last_indexed_slot, emitted>>
    /\ UNCHANGED <<xstream, cfgvars, grpcvars, head, last_indexed_slot_at_start, gap>>

\* select(...) resolves Right((None, _)): back to push only
SelectRightNone ==
    /\ PollerEnded(rpc_poll_stream)
    /\ rpc_poll_stream' = NoStream
    /\ UNCHANGED <<xstream, cfgvars, grpcvars, head, last_indexed_slot_at_start,
                   last_indexed_slot, emitted, gap>>

\* the fallback poll stream, polled by select: issue the next window
FallbackIssue ==
    /\ rpc_poll_stream.on
    /\ rpc_poll_stream.phase = "top"
    /\ rpc_poll_stream.current_slot_to_fetch <= rpc_poll_stream.end_block_slot
    /\ rpc_poll_stream' = PollerIssue(rpc_poll_stream)
    /\ UNCHANGED <<xstream, cfgvars, grpcvars, head, last_indexed_slot_at_start,
                   last_indexed_slot, emitted, gap>>

\* one request of a fetch in flight fails with an error that is not a skip
FallbackFailed(s) ==
    /\ rpc_poll_stream.on
    /\ rpc_poll_stream.phase = "fetching"
    /\ s \in rpc_poll_stream.inflight
    /\ rpc_poll_stream.attempt_counter[s] < MaxAttempts
    /\ rpc_poll_stream' = get_block_failed(rpc_poll_stream, s)
    /\ UNCHANGED <<xstream, cfgvars, grpcvars, head, last_indexed_slot_at_start,
                   last_indexed_slot, emitted, gap>>

\* the fallback poll stream, polled by select: one fetch completes
FallbackFetched(s) ==
    /\ rpc_poll_stream.on
    /\ rpc_poll_stream.phase = "fetching"
    /\ s \in rpc_poll_stream.inflight
    /\ rpc_poll_stream' = PollerFetched(rpc_poll_stream, s)
    /\ UNCHANGED <<xstream, cfgvars, grpcvars, head, last_indexed_slot_at_start,
                   last_indexed_slot, emitted, gap>>

\* main.rs: the stream configuration; last_indexed_slot is 0 or the parent
\* slot of the configured start slot
InitStream ==
    /\ produced \in SUBSET (1..MaxSlot)
    /\ malformed \in SUBSET produced
    /\ config_last_indexed_slot \in Existing
    /\ last_indexed_slot = config_last_indexed_slot
    /\ last_indexed_slot_at_start = 0
    /\ head = config_last_indexed_slot
    /\ grpc_state = "init"
    /\ push_cursor = 0
    /\ connects = 0
    /\ index_recent \in BOOLEAN
    /\ rpc_poll_stream = NoStream
    /\ emitted = <<>>
    /\ pushed = {}
    /\ gap = <<>>
    /\ DaoInit
    /\ MergeIdle
    /\ WriterInit
    /\ ProcIdle
    /\ ApiIdle

NextStream ==
    \/ ChainAdvance
    \/ StreamStart
    \/ GrpcDisconnect
    \/ \E b \in GrpcItems : PushOnly(b)
    \/ \E b \in GrpcItems : SelectLeft(b)
    \/ SelectRightBlock
    \/ SelectRightNone
    \/ FallbackIssue
    \/ \E s \in Slots : FallbackFetched(s)

SpecStream == InitStream /\ [][NextStream]_vars

\* the select loop keeps polling both streams: a poll stream that can move
\* does move, and what it yields or its end is taken
FairStream ==
    /\ WF_vars(FallbackIssue)
    /\ WF_vars(\E s \in Slots : FallbackFetched(s))
    /\ WF_vars(SelectRightBlock)
    /\ WF_vars(SelectRightNone)

\* the composed stream never reads index_recent: one value of it is enough
InitStreamFair == InitStream /\ index_recent

SpecStreamFair == InitStreamFair /\ [][NextStream]_vars /\ FairStream

(***************************************************************************)
(* grpc.rs: get_grpc_block_stream step by step, polled without pause       *)
(***************************************************************************)
\* top of the loop: yield BlockInfo::default(), then build the client
PushYieldDefault ==
    /\ grpc_state = "start"
    /\ grpc_state' = "connect"
    /\ UNCHANGED <<xstream, cfgvars, head, push_cursor, connects, pushed,
                   last_indexed_slot_at_start, last_indexed_slot, rpc_poll_stream,
                   emitted, gap>>

\* build_geyser_client and subscribe_with_request both return Ok
PushSubscribed ==
    /\ grpc_state = "connect"
    /\ grpc_state' = "streaming"
    /\ connects' = connects + 1
    /\ push_cursor' = IF head > push_cursor THEN head ELSE push_cursor
    /\ UNCHANGED <<xstream, cfgvars, head, pushed,
                   last_indexed_slot_at_start, last_indexed_slot, rpc_poll_stream,
                   emitted, gap>>

\* the connect or the subscribe returns Err: sleep one second, continue
PushConnectError ==
    /\ grpc_state = "connect"
    /\ connects < MaxConnects
    /\ grpc_state' = "start"
    /\ connects' = connects + 1
    /\ UNCHANGED <<xstream, cfgvars, head, push_cursor, pushed,
                   last_indexed_slot_at_start, last_indexed_slot, rpc_poll_stream,
                   emitted, gap>>

\* a block frame: parse_block returns Ok and the block is yielded, or Err
\* and the frame is passed over
PushBlock(s, parsed) ==
    /\ grpc_state = "streaming"
    /\ s \in produced /\ push_cursor < s /\ s <= head
    /\ push_cursor' = s
    /\ pushed' = IF parsed THEN pushed \cup {s} ELSE pushed
    /\ UNCHANGED <<xstream, cfgvars, head, grpc_state, connects,
                   last_indexed_slot_at_start, last_indexed_slot, rpc_poll_stream,
                   emitted, gap>>

\* a ping frame: the reply is sent before grpc_rx.next() is called again
PushPing ==
    /\ grpc_state = "streaming"
    /\ grpc_state' = "ping"
    /\ UNCHANGED <<xstream, cfgvars, head, push_cursor, connects, pushed,
                   last_indexed_slot_at_start, last_indexed_slot, rpc_poll_stream,
                   emitted, gap>>

\* grpc_tx.send(self.ping()) returns Ok
PushPingSent ==
    /\ grpc_state = "ping"
    /\ grpc_state' = "streaming"
    /\ UNCHANGED <<xstream, cfgvars, head, push_cursor, connects, pushed,
                   last_indexed_slot_at_start, last_indexed_slot, rpc_poll_stream,
                   emitted, gap>>

\* grpc_tx.send(self.ping()) returns Err: break, sleep, back to the top
PushPingError ==
    /\ grpc_state = "ping"
    /\ connects < MaxConnects
    /\ grpc_state' = "start"
    /\ UNCHANGED <<xstream, cfgvars, head, push_cursor, connects, pushed,
                   last_indexed_slot_at_start, last_indexed_slot, rpc_poll_stream,
                   emitted, gap>>

\* variant: the stream ends on a transport error
PushTransportErrorEnds ==
    /\ grpc_state = "streaming"
    /\ connects < MaxConnects
    /\ grpc_state' = "ended"
    /\ UNCHANGED <<xstream, cfgvars, head, push_cursor, connects, pushed,
                   last_indexed_slot_at_start, last_indexed_slot, rpc_poll_stream,
                   emitted, gap>>

\* grpc_rx.next() gives Some(Err(_)) (break) or None (the while loop is left):
\* sleep one second, back to the top of the loop
PushTransportError ==
    /\ grpc_state = "streaming"
    /\ connects < MaxConnects
    /\ grpc_state' = "start"
    /\ UNCHANGED <<xstream, cfgvars, head, push_cursor, connects, pushed,
                   last_indexed_slot_at_start, last_indexed_slot, rpc_poll_stream,
                   emitted, gap>>

InitPush ==
    /\ produced \in SUBSET (1..MaxSlot)
    /\ malformed = {}
    /\ config_last_indexed_slot = 0
    /\ last_indexed_slot = 0
    /\ last_indexed_slot_at_start = 0
    /\ head = 0
    /\ grpc_state = "start"
    /\ push_cursor = 0
    /\ connects = 0
    /\ index_recent = TRUE
    /\ rpc_poll_stream = NoStream
    /\ emitted = <<>>
    /\ pushed = {}
    /\ gap = <<>>
    /\ DaoInit
    /\ MergeIdle
    /\ WriterInit
    /\ ProcIdle
    /\ ApiIdle

NextPush ==
    \/ ChainAdvance
    \/ PushYieldDefault
    \/ PushSubscribed
    \/ PushConnectError
    \/ \E s \in Slots : \E parsed \in BOOLEAN : PushBlock(s, parsed)
    \/ PushPing
    \/ PushPingSent
    \/ PushPingError
    \/ PushTransportError

\* the consumer keeps polling the stream, connection attempts and ping
\* replies complete, and errors do not go on for ever
FairPush ==
    /\ WF_vars(PushYieldDefault)
    /\ WF_vars(PushSubscribed \/ PushConnectError)
    /\ WF_vars(PushPingSent \/ PushPingError)

SpecPush == InitPush /\ [][NextPush]_vars /\ FairPush

(***************************************************************************)
(* streamer.rs: continously_index_new_blocks over the PollerStreamer       *)
(* (no gRPC url configured)                                                *)
(***************************************************************************)
\* start-up: read the head, default the start to it, create the block stream
PollStart ==
    /\ ~rpc_poll_stream.on
    /\ LET current_slot == head
           at_start == IF config_last_indexed_slot = 0
                       THEN current_slot ELSE config_last_indexed_slot
       IN  /\ last_indexed_slot_at_start' = at_start
           /\ last_indexed_slot' = at_start
           /\ rpc_poll_stream' =
                  get_poller_block_stream(config_last_indexed_slot, at_start, -1)
    /\ UNCHANGED <<xstream, cfgvars, grpcvars, head, emitted, gap>>

\* the poll stream reads the head: first poll, or cursor beyond end_block_slot
PollRefresh ==
    /\ rpc_poll_stream.on /\ rpc_poll_stream.forever
    /\ \/ rpc_poll_stream.phase = "new"
       \/ /\ rpc_poll_stream.phase = "top"
          /\ rpc_poll_stream.current_slot_to_fetch > rpc_poll_stream.end_block_slot
    /\ rpc_poll_stream' = PollerRefresh(rpc_poll_stream, head)
    /\ UNCHANGED <<xstream, cfgvars, grpcvars, head, last_indexed_slot_at_start,
                   last_indexed_slot, emitted, gap>>

\* the driver loop takes the next block of the stream and hands it to the
\* writer: block_stream.next(), send_block_batches, last_indexed_slot = slot
PollEmit ==
    /\ rpc_poll_stream.on /\ rpc_poll_stream.forever
    /\ rpc_poll_stream.phase = "yielding"
    /\ LET b == Head(rpc_poll_stream.blocks_to_yield)
       IN  /\ rpc_poll_stream' = PollerYield(rpc_poll_stream)
           /\ Yield(b, "poll")
    /\ UNCHANGED <<xstream, cfgvars, grpcvars, head, last_indexed_slot_at_start, gap>>

InitPoll ==
    /\ produced \in SUBSET (1..MaxSlot)
    /\ malformed \in SUBSET produced
    /\ config_last_indexed_slot \in Existing
    /\ last_indexed_slot = config_last_indexed_slot
    /\ last_indexed_slot_at_start = config_last_indexed_slot
    /\ head = config_last_indexed_slot
    /\ grpc_state = "start"
    /\ push_cursor = 0
    /\ connects = 0
    /\ index_recent = TRUE
    /\ rpc_poll_stream = NoStream
    /\ emitted = <<>>
    /\ pushed = {}
    /\ gap = <<>>
    /\ DaoInit
    /\ MergeIdle
    /\ WriterInit
    /\ ProcIdle
    /\ ApiIdle

NextPoll ==
    \/ ChainAdvance
    \/ PollStart
    \/ PollRefresh
    \/ FallbackIssue
    \/ \E s \in Slots : FallbackFailed(s)
    \/ \E s \in Slots : FallbackFetched(s)
    \/ PollEmit

SpecPoll == InitPoll /\ [][NextPoll]_vars

\* the driver loop keeps awaiting block_stream.next(): the stream's polls,
\* fetches and yields are not postponed forever
FairPoll ==
    /\ WF_vars(PollRefresh)
    /\ WF_vars(FallbackIssue)
    /\ WF_vars(\E s \in Slots : FallbackFetched(s))
    /\ WF_vars(PollEmit)

SpecPollFair == InitPoll /\ [][NextPoll]_vars /\ FairPoll

(***************************************************************************)
(* The DAO called directly: any entry point, any argument, again and again *)
(***************************************************************************)
InitDao ==
    /\ StreamIdle
    /\ DaoInit
    /\ MergeIdle
    /\ WriterInit
    /\ ProcIdle
    /\ ApiIdle

NextDao ==
    \/ \E b \in DaoBlocks : \E order \in SeqsOf(parse_block_state_update(b)) :
          index_block(b, order)
    \/ \E batch \in Batches : \E order \in SeqsOf(UpdateOf(batch)) :
          index_block_batch(batch, order)
    \/ \E batch \in Batches :
          \E i \in 1..Len(Chunks(MetasOf(batch), MAX_SQL_INSERTS)) :
              index_block_metadatas(Chunks(MetasOf(batch), MAX_SQL_INSERTS)[i])
    \/ \E batch \in Batches : \E order \in SeqsOf(UpdateOf(batch)) :
          \E i \in 1..Len(Chunks(order, MAX_SQL_INSERTS)) :
              index_transaction(Chunks(order, MAX_SQL_INSERTS)[i])
    \/ DaoExec
    \/ DaoCommit
    \/ DaoFail
    \/ Tick

SpecDao == InitDao /\ [][NextDao]_vars

(***************************************************************************)
(* Dao::index_block_batches: the retry loop around index_block_batch       *)
(***************************************************************************)
\* one round of the loop: index_block_batch(&block_batch) begins
BatchAttempt(batch, order, attempt) ==
    /\ order \in SeqsOf(UpdateOf(batch))
    /\ dao' = [stage |-> "open", op |-> "index_block_batches",
               metas |-> Range(MetasOf(batch)), txs |-> UpdateOf(batch),
               stmts |-> StmtsMeta(MetasOf(batch)) \o StmtsUpdate(UpdateOf(batch), order),
               blocks |-> db_blocks, transfers |-> db_transfers,
               result |-> "none",
               replay |-> (Range(MetasOf(batch)) \subseteq stored_meta
                             /\ UpdateOf(batch) \subseteq stored_txs),
               batch |-> batch, attempt |-> attempt]
    /\ UNCHANGED <<db_blocks, db_transfers, db_failures, stored_meta, stored_txs>>
    /\ UNCHANGED xdao

\* Dao::index_block_batches(block_batch) is called
index_block_batches(batch, order) ==
    /\ dao.stage = "idle"
    /\ BatchAttempt(batch, order, 1)
    /\ UNCHANGED now

\* variant: the loop gives up after the first error
index_block_batches_giveup ==
    /\ dao.stage = "retry"
    /\ dao' = [dao EXCEPT !.stage = "idle"]
    /\ UNCHANGED <<db_blocks, db_transfers, now, db_failures, stored_meta, stored_txs>>
    /\ UNCHANGED xdao

\* Err(e): the slot range is logged and, after the sleep of one second, the
\* whole batch is tried again on a new transaction
index_block_batches_retry ==
    /\ dao.stage = "retry"
    /\ \E order \in SeqsOf(UpdateOf(dao.batch)) :
          BatchAttempt(dao.batch, order, dao.attempt + 1)
    /\ now' = IF now < MaxClock THEN now + 1 ELSE now

InitRetry ==
    /\ StreamIdle
    /\ DaoInit
    /\ MergeIdle
    /\ WriterInit
    /\ ProcIdle
    /\ ApiIdle

NextRetry ==
    \/ \E batch \in Batches : \E order \in SeqsOf(UpdateOf(batch)) :
          index_block_batches(batch, order)
    \/ index_block_batches_retry
    \/ DaoExec
    \/ DaoCommit
    \/ DaoFail

\* the caller and the database keep going; errors are free
SpecRetry ==
    /\ InitRetry /\ [][NextRetry]_vars
    /\ WF_vars(DaoExec) /\ WF_vars(DaoCommit)
    /\ WF_vars(index_block_batches_retry)

(***************************************************************************)
(* StateUpdate::merge_updates applied to any list of updates               *)
(***************************************************************************)
MergeTxs == {T1, T1v, T2}

merge_call ==
    /\ ~merge_out.done
    /\ merge_out' = [done |-> TRUE, transactions |-> merge_updates(merge_in)]
    /\ UNCHANGED <<merge_in, parse_in, parse_out>>
    /\ UNCHANGED xmerge

InitMerge ==
    /\ StreamIdle
    /\ DaoInit
    /\ WriterInit
    /\ ProcIdle
    /\ ApiIdle
    /\ merge_in \in UNION {[1..n -> SUBSET MergeTxs] : n \in 0..MaxUpdates}
    /\ merge_out = [done |-> FALSE, transactions |-> {}]
    /\ ParseIdle

NextMerge == merge_call

SpecMerge == InitMerge /\ [][NextMerge]_vars

(***************************************************************************)
(* messenger.rs: the writer pipeline fed by the streamer loop              *)
(***************************************************************************)
\* the blocks the streamer emits, in emission order
WriterBlocks == <<B1, B2>>

Handed == {WriterBlocks[i] : i \in 1..sent}

\* variant: the receiver of the transaction channel has been dropped
receiver_alive_blocks_only(chan) == chan = "block"

\* UnboundedSender::send fails only when the receiver is gone; both receivers
\* are fields of the Messenger (Arc<Mutex<..>>) the sender is called on
receiver_alive(chan) == TRUE

\* send_block_batch: the metadata chunks go on the block channel, then the
\* chunks of the merged update on the transaction channel; the first failed
\* send returns its error, what was sent before it stays sent
send_block_batch(block_batch, order) ==
    LET state_update == UpdateOf(block_batch)
        metadatas_ok == receiver_alive("block")
        update_ok == state_update = DefaultStateUpdate \/ receiver_alive("transaction")
    IN  [ok |-> metadatas_ok /\ update_ok,
         blocks |-> IF metadatas_ok
                    THEN Chunks(MetasOf(block_batch), MAX_SQL_INSERTS) ELSE <<>>,
         transactions |-> IF metadatas_ok /\ update_ok /\ state_update # DefaultStateUpdate
                          THEN Chunks(order, MAX_SQL_INSERTS) ELSE <<>>]

\* streamer.rs: messenger.send_block_batches(vec![block]): one round of the
\* loop; it returns on Ok and goes round again (after a second) on Err
send_block_batches(order) ==
    /\ sent < Len(WriterBlocks)
    /\ LET block_batch == <<WriterBlocks[sent + 1]>>
           round == send_block_batch(block_batch, order)
       IN  /\ order \in SeqsOf(UpdateOf(block_batch))
           /\ block_chan' = block_chan \o round.blocks
           /\ txn_chan' = txn_chan \o round.transactions
           /\ sent' = IF round.ok THEN sent + 1 ELSE sent
    /\ UNCHANGED <<block_rx_lock, txn_rx_lock, block_workers, txn_workers>>
    /\ UNCHANGED <<svars, dvars, mvars, pvars, avars>>

\* variant: recv entered without the lock being free
block_worker_lock_unguarded(w) ==
    /\ block_workers[w].pc = "select"
    /\ block_rx_lock' = w
    /\ block_workers' = [block_workers EXCEPT ![w].pc = "recv"]
    /\ UNCHANGED <<sent, block_chan, txn_chan, txn_rx_lock, txn_workers>>
    /\ UNCHANGED <<svars, dvars, mvars, pvars, avars>>

\* block_worker: block_receiver.lock().await
block_worker_lock(w) ==
    /\ block_workers[w].pc = "select" /\ block_rx_lock = 0
    /\ block_rx_lock' = w
    /\ block_workers' = [block_workers EXCEPT ![w].pc = "recv"]
    /\ UNCHANGED <<sent, block_chan, txn_chan, txn_rx_lock, txn_workers>>
    /\ UNCHANGED <<svars, dvars, mvars, pvars, avars>>

\* variant: the guard of the receiver outlives the recv
block_worker_recv_keeps_lock(w) ==
    /\ block_workers[w].pc = "recv" /\ block_chan # <<>>
    /\ block_chan' = Tail(block_chan)
    /\ block_workers' = [block_workers EXCEPT ![w] = [pc |-> "write", chunk |-> Head(block_chan)]]
    /\ UNCHANGED <<sent, txn_chan, block_rx_lock, txn_rx_lock, txn_workers>>
    /\ UNCHANGED <<svars, dvars, mvars, pvars, avars>>

\* block_worker: rx_lock.recv().await returns Some(blocks); the guard is dropped
block_worker_recv(w) ==
    /\ block_workers[w].pc = "recv" /\ block_chan # <<>>
    /\ block_chan' = Tail(block_chan)
    /\ block_rx_lock' = 0
    /\ block_workers' = [block_workers EXCEPT ![w] = [pc |-> "write", chunk |-> Head(block_chan)]]
    /\ UNCHANGED <<sent, txn_chan, txn_rx_lock, txn_workers>>
    /\ UNCHANGED <<svars, dvars, mvars, pvars, avars>>

\* block_worker: dao.index_block_metadatas(block_refs) commits
block_worker_write(w) ==
    /\ block_workers[w].pc = "write"
    /\ LET r == InsertDoNothing(db_blocks,
                    [i \in 1..Len(block_workers[w].chunk) |->
                        BlockModel(block_workers[w].chunk[i])],
                    ConflictBlocks, PkBlocks)
       IN  db_blocks' = IF r.ok THEN r.table ELSE db_blocks
    /\ block_workers' = [block_workers EXCEPT ![w] = [pc |-> "select", chunk |-> <<>>]]
    /\ UNCHANGED <<db_transfers, now, db_failures, dao, stored_meta, stored_txs>>
    /\ UNCHANGED <<sent, block_chan, txn_chan, block_rx_lock, txn_rx_lock, txn_workers>>
    /\ UNCHANGED <<svars, mvars, pvars, avars>>

\* variant: the worker puts the failed chunk back on the channel
block_worker_error_requeue(w) ==
    /\ block_workers[w].pc = "write"
    /\ db_failures < MaxDbFailures
    /\ db_failures' = db_failures + 1
    /\ block_chan' = Append(block_chan, block_workers[w].chunk)
    /\ block_workers' = [block_workers EXCEPT ![w] = [pc |-> "select", chunk |-> <<>>]]
    /\ UNCHANGED <<db_blocks, db_transfers, now, dao, stored_meta, stored_txs>>
    /\ UNCHANGED <<sent, txn_chan, block_rx_lock, txn_rx_lock, txn_workers>>
    /\ UNCHANGED <<svars, mvars, pvars, avars>>

\* block_worker: index_block_metadatas returns Err: the error is logged and
\* the loop goes on to the next chunk
block_worker_error(w) ==
    /\ block_workers[w].pc = "write"
    /\ db_failures < MaxDbFailures
    /\ db_failures' = db_failures + 1
    /\ block_workers' = [block_workers EXCEPT ![w] = [pc |-> "select", chunk |-> <<>>]]
    /\ UNCHANGED <<db_blocks, db_transfers, now, dao, stored_meta, stored_txs>>
    /\ UNCHANGED <<sent, block_chan, txn_chan, block_rx_lock, txn_rx_lock, txn_workers>>
    /\ UNCHANGED <<svars, mvars, pvars, avars>>

\* transaction_worker: transaction_receiver.lock().await
transaction_worker_lock(w) ==
    /\ txn_workers[w].pc = "select" /\ txn_rx_lock = 0
    /\ txn_rx_lock' = w
    /\ txn_workers' = [txn_workers EXCEPT ![w].pc = "recv"]
    /\ UNCHANGED <<sent, block_chan, txn_chan, block_rx_lock, block_workers>>
    /\ UNCHANGED <<svars, dvars, mvars, pvars, avars>>

\* transaction_worker: rx_lock.recv().await returns Some(transaction)
transaction_worker_recv(w) ==
    /\ txn_workers[w].pc = "recv" /\ txn_chan # <<>>
    /\ txn_chan' = Tail(txn_chan)
    /\ txn_rx_lock' = 0
    /\ txn_workers' = [txn_workers EXCEPT ![w] = [pc |-> "write", chunk |-> Head(txn_chan)]]
    /\ UNCHANGED <<sent, block_chan, block_rx_lock, block_workers>>
    /\ UNCHANGED <<svars, dvars, mvars, pvars, avars>>

\* transaction_worker: dao.index_transaction(&transaction) commits
transaction_worker_write(w) ==
    /\ txn_workers[w].pc = "write"
    /\ LET r == InsertDoNothing(db_transfers,
                    TransferModels(txn_workers[w].chunk, now),
                    ConflictTokenTransfers, PkTokenTransfers)
       IN  db_transfers' = IF r.ok THEN r.table ELSE db_transfers
    /\ txn_workers' = [txn_workers EXCEPT ![w] = [pc |-> "select", chunk |-> <<>>]]
    /\ UNCHANGED <<db_blocks, now, db_failures, dao, stored_meta, stored_txs>>
    /\ UNCHANGED <<sent, block_chan, txn_chan, block_rx_lock, txn_rx_lock, block_workers>>
    /\ UNCHANGED <<svars, mvars, pvars, avars>>

\* transaction_worker: index_transaction returns Err: logged, chunk dropped
transaction_worker_error(w) ==
    /\ txn_workers[w].pc = "write"
    /\ db_failures < MaxDbFailures
    /\ db_failures' = db_failures + 1
    /\ txn_workers' = [txn_workers EXCEPT ![w] = [pc |-> "select", chunk |-> <<>>]]
    /\ UNCHANGED <<db_blocks, db_transfers, now, dao, stored_meta, stored_txs>>
    /\ UNCHANGED <<sent, block_chan, txn_chan, block_rx_lock, txn_rx_lock, block_workers>>
    /\ UNCHANGED <<svars, mvars, pvars, avars>>

InitWriter ==
    /\ StreamIdle
    /\ DaoInit
    /\ MergeIdle
    /\ WriterInit
    /\ ProcIdle
    /\ ApiIdle

NextWriter ==
    \/ \E order \in UNION {SeqsOf(S) : S \in SUBSET Transactions} :
          send_block_batches(order)
    \/ \E w \in Workers : block_worker_lock(w)
    \/ \E w \in Workers : block_worker_recv(w)
    \/ \E w \in Workers : block_worker_write(w)
    \/ \E w \in Workers : block_worker_error(w)
    \/ \E w \in Workers : transaction_worker_lock(w)
    \/ \E w \in Workers : transaction_worker_recv(w)
    \/ \E w \in Workers : transaction_worker_write(w)
    \/ \E w \in Workers : transaction_worker_error(w)

SpecWriter == InitWriter /\ [][NextWriter]_vars

\* the runtime keeps running the worker tasks: a free lock is handed to a
\* waiting worker, a worker whose recv has a chunk takes it, a write ends
FairWriter ==
    /\ WF_vars(\E w \in Workers : block_worker_lock(w))
    /\ WF_vars(\E w \in Workers : transaction_worker_lock(w))
    /\ \A w \in Workers : WF_vars(block_worker_recv(w))
    /\ \A w \in Workers : WF_vars(transaction_worker_recv(w))
    /\ \A w \in Workers : WF_vars(block_worker_write(w))
    /\ \A w \in Workers : WF_vars(transaction_worker_write(w))

SpecWriterFair == InitWriter /\ [][NextWriter]_vars /\ FairWriter

(***************************************************************************)
(* main.rs: the process from the spawn of the streamer task to its exit    *)
(***************************************************************************)
\* the task spawned by main runs continously_index_new_blocks, which spawns
\* the task of the indexing loop and returns its handle: the outer task is
\* finished, the loop runs in a task main holds no handle of
indexer_spawn ==
    /\ main_pc = "ctrl_c" /\ streamer_task = "spawning"
    /\ streamer_task' = "running"
    /\ UNCHANGED <<main_pc, svars, dvars, mvars, wvars, avars>>

\* the streamer loop hands its next block to the writer
streamer_send(order) ==
    /\ streamer_task = "running"
    /\ send_block_batches(order)

\* tokio::signal::ctrl_c() returns: indexer_handle.abort() and its await
\* (the abort reaches the outer task only if it has not run yet), then main
\* returns and the runtime is dropped, which drops every task still alive
\* where it is suspended.  Nothing notifies shutdown_notify and the senders
\* live in the Messenger the workers hold, so no worker leaves its loop by
\* the shutdown branch or by a closed channel.
ctrl_c ==
    /\ main_pc = "ctrl_c"
    /\ main_pc' = "returned"
    /\ streamer_task' = IF streamer_task = "spawning" THEN "aborted" ELSE "dropped"
    /\ block_workers' = [w \in Workers |-> [pc |-> "dropped", chunk |-> <<>>]]
    /\ txn_workers' = [w \in Workers |-> [pc |-> "dropped", chunk |-> <<>>]]
    /\ block_rx_lock' = 0 /\ txn_rx_lock' = 0
    /\ UNCHANGED <<sent, block_chan, txn_chan>>
    /\ UNCHANGED <<svars, dvars, mvars, avars>>

InitShutdown ==
    /\ StreamIdle
    /\ DaoInit
    /\ MergeIdle
    /\ WriterInit
    /\ main_pc = "ctrl_c" /\ streamer_task = "spawning"
    /\ ApiIdle

NextShutdown ==
    \/ indexer_spawn
    \/ ctrl_c
    \/ \E order \in UNION {SeqsOf(S) : S \in SUBSET Transactions} :
          streamer_send(order)
    \/ \E w \in Workers : block_worker_lock(w)
    \/ \E w \in Workers : block_worker_recv(w)
    \/ \E w \in Workers : block_worker_write(w)
    \/ \E w \in Workers : block_worker_error(w)
    \/ \E w \in Workers : transaction_worker_lock(w)
    \/ \E w \in Workers : transaction_worker_recv(w)
    \/ \E w \in Workers : transaction_worker_write(w)
    \/ \E w \in Workers : transaction_worker_error(w)

\* every task that can run does run
SpecShutdown == InitShutdown /\ [][NextShutdown]_vars /\ WF_vars(NextShutdown)

(***************************************************************************)
(* api.rs: Api::validate_pagination                                        *)
(***************************************************************************)
\* the limit above which a request is refused, and the default limit
MaxLimit == 1000

DefaultLimit == 1000

\* the highest offset a page request may reach
MaxOffset == 500000

\* u32 values are kept as two 16-bit halves
HalfWord == 2^16

IsSome(o) == o # None

Unwrap(o) == o[1]

\* the date texts the requests carry, character by character
Text_01_01_2024 == <<"0", "1", "/", "0", "1", "/", "2", "0", "2", "4">>

Text_31_12_2023 == <<"3", "1", "/", "1", "2", "/", "2", "0", "2", "3">>

Text_29_02_2024 == <<"2", "9", "/", "0", "2", "/", "2", "0", "2", "4">>

Text_29_02_2023 == <<"2", "9", "/", "0", "2", "/", "2", "0", "2", "3">>

Text_5_7_2024 == <<"5", "/", "7", "/", "2", "0", "2", "4">>

Text_01_13_2024 == <<"0", "1", "/", "1", "3", "/", "2", "0", "2", "4">>

Text_iso == <<"2", "0", "2", "4", "-", "0", "1", "-", "0", "1">>

Text_trailing == <<"0", "1", "/", "0", "1", "/", "2", "0", "2", "4", "x">>

DateTexts == {Text_01_01_2024, Text_31_12_2023, Text_29_02_2024, Text_29_02_2023,
              Text_5_7_2024, Text_01_13_2024, Text_iso, Text_trailing, <<>>}

Digits == <<"0", "1", "2", "3", "4", "5", "6", "7", "8", "9">>

IsDigit(c) == \E d \in 1..10 : Digits[d] = c

DigitValue(c) == (CHOOSE d \in 1..10 : Digits[d] = c) - 1

\* chrono's numeric item: between 1 and max digits, as many as there are
RECURSIVE ScanNumber(_, _, _, _)
ScanNumber(text, max, n, value) ==
    IF n < max /\ text # <<>> /\ IsDigit(Head(text))
    THEN ScanNumber(Tail(text), max, n + 1, 10 * value + DigitValue(Head(text)))
    ELSE [ok |-> n >= 1, value |-> value, rest |-> text]

\* chrono's literal item
ScanLiteral(text, c) ==
    IF text # <<>> /\ Head(text) = c
    THEN [ok |-> TRUE, rest |-> Tail(text)]
    ELSE [ok |-> FALSE, rest |-> text]

IsLeap(y) == (y % 4 = 0 /\ y % 100 # 0) \/ y % 400 = 0

DaysIn(m, y) ==
    IF m = 2 THEN (IF IsLeap(y) THEN 29 ELSE 28)
    ELSE IF m \in {4, 6, 9, 11} THEN 30 ELSE 31

\* NaiveDate::from_ymd_opt: the calendar check
IsDate(y, m, d) == m \in 1..12 /\ d \in 1..DaysIn(m, y)

NoDate == [ok |-> FALSE, date |-> [year |-> 0, month |-> 0, day |-> 0]]

\* NaiveDate::parse_from_str(text, "%d/%m/%Y")
parse_from_str(text) ==
    LET d  == ScanNumber(text, 2, 0, 0)
        s1 == ScanLiteral(d.rest, "/")
        m  == ScanNumber(s1.rest, 2, 0, 0)
        s2 == ScanLiteral(m.rest, "/")
        y  == ScanNumber(s2.rest, 4, 0, 0)
    IN  IF d.ok /\ s1.ok /\ m.ok /\ s2.ok /\ y.ok /\ y.rest = <<>>
           /\ IsDate(y.value, m.value, d.value)
        THEN [ok |-> TRUE, date |-> [year |-> y.value, month |-> m.value, day |-> d.value]]
        ELSE NoDate

\* a * b on u32, for a below 2^31 and b below 2^15: the halves of the wrapped
\* product and whether the product left the type
Mul32(a, b) ==
    LET lo_full == (a % HalfWord) * b
        hi_full == (a \div HalfWord) * b + (lo_full \div HalfWord)
    IN  [hi |-> hi_full % HalfWord, lo |-> lo_full % HalfWord,
         overflow |-> hi_full >= HalfWord]

\* x > bound for a u32 held as halves
Gt32(x, bound) ==
    \/ x.hi > bound \div HalfWord
    \/ x.hi = bound \div HalfWord /\ x.lo > bound % HalfWord

Err(e) == [done |-> TRUE, kind |-> "Err", err |-> e, value |-> <<>>]

Panic == [done |-> TRUE, kind |-> "Panic", err |-> <<>>, value |-> <<>>]

Ok(v) == [done |-> TRUE, kind |-> "Ok", err |-> <<>>, value |-> <<v>>]

\* variant: the error of an unparsable date names the other field
PageDatesSwapped(before, after) ==
    LET b == IF IsSome(before) THEN parse_from_str(Unwrap(before)) ELSE NoDate
        a == IF IsSome(after) THEN parse_from_str(Unwrap(after)) ELSE NoDate
    IN  IF IsSome(before) /\ ~b.ok THEN [ok |-> FALSE, field |-> "after"]
        ELSE IF IsSome(after) /\ ~a.ok THEN [ok |-> FALSE, field |-> "before"]
        ELSE [ok |-> TRUE, field |-> "",
              before |-> IF IsSome(before) THEN Some(b.date) ELSE None,
              after |-> IF IsSome(after) THEN Some(a.date) ELSE None]

\* the date fields of the PageOptions: the parsed dates, or the error
PageDates(before, after) ==
    LET b == IF IsSome(before) THEN parse_from_str(Unwrap(before)) ELSE NoDate
        a == IF IsSome(after) THEN parse_from_str(Unwrap(after)) ELSE NoDate
    IN  IF IsSome(before) /\ ~b.ok THEN [ok |-> FALSE, field |-> "before"]
        ELSE IF IsSome(after) /\ ~a.ok THEN [ok |-> FALSE, field |-> "after"]
        ELSE [ok |-> TRUE, field |-> "",
              before |-> IF IsSome(before) THEN Some(b.date) ELSE None,
              after |-> IF IsSome(after) THEN Some(a.date) ELSE None]

\* variant: page 0 is taken as a page among the date bounds
PageCheckLoose(page, before, after) ==
    IF IsSome(before) \/ IsSome(after) \/ Unwrap(page) = 0
    THEN <<"PaginationError">> ELSE <<>>

\* the two tests on a given page that do not involve the limit
PageCheck(page, before, after) ==
    IF Unwrap(page) = 0 THEN <<"PaginationEmptyError">>
    ELSE IF IsSome(before) \/ IsSome(after) THEN <<"PaginationError">>
    ELSE <<>>

\* Api::validate_pagination; overflow_checks tells a build that panics on
\* arithmetic overflow from one that wraps
validate_pagination(limit, page, before, after, overflow_checks) ==
    IF IsSome(limit) /\ Unwrap(limit) > MaxLimit
    THEN Err(<<"PaginationExceededError">>)
    ELSE IF IsSome(page) /\ PageCheck(page, before, after) # <<>>
    THEN Err(PageCheck(page, before, after))
    ELSE LET current_limit == IF IsSome(limit) THEN Unwrap(limit) ELSE DefaultLimit
             offset == IF IsSome(page) THEN Mul32(Unwrap(page) - 1, current_limit)
                       ELSE [hi |-> 0, lo |-> 0, overflow |-> FALSE]
             dates == PageDates(before, after)
         IN  IF offset.overflow /\ overflow_checks THEN Panic
             ELSE IF Gt32(offset, MaxOffset) THEN Err(<<"OffsetLimitExceededError">>)
             ELSE IF ~dates.ok THEN Err(<<"InvalidDate", dates.field>>)
             ELSE Ok([limit |-> current_limit, page |-> page,
                      before |-> dates.before, after |-> dates.after])

Limits == {None} \cup {Some(n) : n \in {0, 1, 10, 1000, 1001, 10000}}

Pages == {None} \cup {Some(n) : n \in {0, 1, 2, 100, 501, 502, 50001, 50002,
                                       500001, 500002, 4294969}}

OptDates == {None} \cup {Some(t) : t \in DateTexts}

validate_call ==
    /\ ~page_out.done
    /\ \E overflow_checks \in BOOLEAN :
          page_out' = validate_pagination(page_in.limit, page_in.page,
                                          page_in.before, page_in.after,
                                          overflow_checks)
    /\ UNCHANGED <<page_in, api_in, api_out, pages>>
    /\ UNCHANGED <<svars, dvars, mvars, wvars, pvars>>

InitPagination ==
    /\ StreamIdle
    /\ DaoInit
    /\ MergeIdle
    /\ WriterInit
    /\ ProcIdle
    /\ page_in \in [limit : Limits, page : Pages, before : OptDates, after : OptDates]
    /\ page_out = NoCall
    /\ api_in = [op |-> "none"] /\ api_out = NoCall
    /\ pages = NoScan

NextPagination == validate_call

SpecPagination == InitPagination /\ [][NextPagination]_vars

(***************************************************************************)
(* api: the queries (db.rs, spec/api_impl.rs, types.rs)                    *)
(***************************************************************************)
\* the alphabet of bs58 (Bitcoin's)
Alphabet ==
    <<"1", "2", "3", "4", "5", "6", "7", "8", "9",
      "A", "B", "C", "D", "E", "F", "G", "H", "J", "K", "L", "M", "N", "P", "Q",
      "R", "S", "T", "U", "V", "W", "X", "Y", "Z",
      "a", "b", "c", "d", "e", "f", "g", "h", "i", "j", "k", "m", "n", "o", "p",
      "q", "r", "s", "t", "u", "v", "w", "x", "y", "z">>

IsBase58(c) == \E i \in 1..Len(Alphabet) : Alphabet[i] = c

Base58Value(c) == (CHOOSE i \in 1..Len(Alphabet) : Alphabet[i] = c) - 1

\* digits (least significant first, in base radix) * factor + carry
RECURSIVE MulAdd(_, _, _, _)
MulAdd(digits, carry, factor, radix) ==
    IF digits = <<>>
    THEN (IF carry = 0 THEN <<>>
          ELSE <<carry % radix>> \o MulAdd(<<>>, carry \div radix, factor, radix))
    ELSE LET v == Head(digits) * factor + carry
         IN  <<v % radix>> \o MulAdd(Tail(digits), v \div radix, factor, radix)

\* the digits of a number read from its most significant digit on
RECURSIVE Convert(_, _, _, _)
Convert(input, acc, factor, radix) ==
    IF input = <<>> THEN acc
    ELSE Convert(Tail(input), MulAdd(acc, Head(input), factor, radix), factor, radix)

Reverse(seq) == [i \in 1..Len(seq) |-> seq[Len(seq) + 1 - i]]

\* the number of leading elements of seq equal to z
RECURSIVE LeadingCount(_, _)
LeadingCount(seq, z) ==
    IF seq # <<>> /\ Head(seq) = z THEN 1 + LeadingCount(Tail(seq), z) ELSE 0

\* bs58::decode(text).into_vec()
bs58_decode(text) ==
    IF \E i \in 1..Len(text) : ~IsBase58(text[i])
    THEN [ok |-> FALSE, bytes |-> <<>>]
    ELSE [ok |-> TRUE,
          bytes |-> [i \in 1..LeadingCount(text, Alphabet[1]) |-> 0]
                    \o Reverse(Convert([i \in 1..Len(text) |-> Base58Value(text[i])],
                                       <<>>, Len(Alphabet), 256))]

\* bs58::encode(bytes).into_string()
bs58_encode(bytes) ==
    LET digits == [i \in 1..LeadingCount(bytes, 0) |-> 0]
                  \o Reverse(Convert(bytes, <<>>, 256, Len(Alphabet)))
    IN  [i \in 1..Len(digits) |-> Alphabet[digits[i] + 1]]

\* the bytes of the accounts of the model (two of a key's 32)
AddressBytes == [a |-> <<0, 1>>, b |-> <<1, 0>>, m |-> <<0, 3>>, n |-> <<2, 7>>]

\* the bytes of a signature of the model (two of its 64)
SignatureBytes(sig) == <<sig, sig>>

\* the width of a public key
PubkeyBytes == Len(AddressBytes.a)

\* the texts of the requests: the accounts a, b, m and n, an account that
\* holds nothing, a key that is too long, and a text that is not base58
Key_a == <<"1", "2">>

Key_b == <<"5", "R">>

Key_m == <<"1", "4">>

Key_n == <<"9", "x">>

Key_other == <<"1", "3">>

Key_long == <<"1", "1", "2">>

Key_bad == <<"0", "O">>

\* the ids: the signatures 1, 2 and 3, a signature that is not stored, a
\* shorter id, and the text unknown_txn
Id_1 == <<"5", "S">>

Id_2 == <<"9", "s">>

Id_3 == <<"E", "J">>

Id_other == <<"J", "j">>

Id_short == <<"2">>

Id_unknown_txn == <<"u", "n", "k", "n", "o", "w", "n", "_", "t", "x", "n">>

\* validate_pubkey: Pubkey::from_str
validate_pubkey(str_pubkey) ==
    LET d == bs58_decode(str_pubkey)
    IN  IF d.ok /\ Len(d.bytes) = PubkeyBytes
        THEN [ok |-> TRUE, bytes |-> d.bytes]
        ELSE [ok |-> FALSE, bytes |-> <<>>]

\* days since 1970-01-01 of a calendar date
DaysFromCivil(date) ==
    LET y   == IF date.month <= 2 THEN date.year - 1 ELSE date.year
        era == y \div 400
        yoe == y % 400
        mp  == (date.month + 9) % 12
        doy == (153 * mp + 2) \div 5 + date.day - 1
        doe == yoe * 365 + yoe \div 4 - yoe \div 100 + doy
    IN  era * 146097 + doe - 719468

\* FixedOffset::east(5 * 3600 + 30 * 60)
timezone_offset == 5 * 3600 + 30 * 60

\* timezone_offset.from_local_datetime(date.and_hms(h, m, s)), in seconds
\* since the epoch
LocalInstant(date, h, m, s) ==
    DaysFromCivil(date) * 86400 + h * 3600 + m * 60 + s - timezone_offset

\* variant: a request without page and without dates has no pagination
create_pagination_needs_bound(page_opt) ==
    IF page_opt.page = None /\ (page_opt.before # None \/ page_opt.after # None)
    THEN [ok |-> TRUE, kind |-> "Keyset", before |-> page_opt.before,
          after |-> page_opt.after, page |-> 0]
    ELSE IF page_opt.page # None /\ page_opt.before = None /\ page_opt.after = None
    THEN [ok |-> TRUE, kind |-> "Page", before |-> None, after |-> None,
          page |-> page_opt.page[1]]
    ELSE [ok |-> FALSE, kind |-> "none", before |-> None, after |-> None, page |-> 0]

\* Api::create_pagination
create_pagination(page_opt) ==
    IF page_opt.page = None
    THEN [ok |-> TRUE, kind |-> "Keyset", before |-> page_opt.before,
          after |-> page_opt.after, page |-> 0]
    ELSE IF page_opt.before = None /\ page_opt.after = None
    THEN [ok |-> TRUE, kind |-> "Page", before |-> None, after |-> None,
          page |-> Unwrap(page_opt.page)]
    ELSE [ok |-> FALSE, kind |-> "none", before |-> None, after |-> None, page |-> 0]

\* create_sorting: the direction and the column of a TransactionSorting
create_sorting(sorting) ==
    [direction |-> IF sorting.sort_direction = None THEN "Desc"
                   ELSE Unwrap(sorting.sort_direction),
     column |-> Some("block_time")]

\* TransactionSorting::default()
DefaultSorting == [sort_by |-> "created", sort_direction |-> Some("Desc")]

\* the value of a column of a row, as the database compares it: a time by
\* its instant, a bytea by its bytes
ColumnValue(row, col) ==
    IF col = "block_time" THEN <<row.block_time.secs - row.block_time.offset>>
    ELSE IF col = "signature" THEN SignatureBytes(row.signature)
    ELSE AddressBytes[row[col]]

\* -1, 0 or 1: the order of two sequences of numbers
RECURSIVE Compare(_, _)
Compare(x, y) ==
    IF x = <<>> /\ y = <<>> THEN 0
    ELSE IF x = <<>> THEN -1
    ELSE IF y = <<>> THEN 1
    ELSE IF Head(x) < Head(y) THEN -1
    ELSE IF Head(x) > Head(y) THEN 1
    ELSE Compare(Tail(x), Tail(y))

\* ORDER BY: r1 may come before r2 under the order terms, the first term first
RECURSIVE MayPrecede(_, _, _)
MayPrecede(r1, r2, order) ==
    IF order = <<>> THEN TRUE
    ELSE LET c == Compare(ColumnValue(r1, Head(order).col), ColumnValue(r2, Head(order).col))
             d == IF Head(order).dir = "Asc" THEN c ELSE -c
         IN  IF d < 0 THEN TRUE
             ELSE IF d > 0 THEN FALSE
             ELSE MayPrecede(r1, r2, Tail(order))

\* the answers the database may give to SELECT ... ORDER BY order: every
\* arrangement of the rows that respects the order terms
Select(rows, order) ==
    {s \in SeqsOf(rows) :
        \A i \in 1..Len(s) : \A j \in 1..Len(s) : i < j => MayPrecede(s[i], s[j], order)}

\* variant: the bounds are taken in UTC
paginate_filter_utc(pagination, rows) ==
    IF pagination.kind = "Keyset"
    THEN {r \in rows :
            /\ IsSome(pagination.before) =>
                  ColumnValue(r, "block_time")[1]
                      < DaysFromCivil(Unwrap(pagination.before)) * 86400 + 86399
            /\ IsSome(pagination.after) =>
                  ColumnValue(r, "block_time")[1]
                      > DaysFromCivil(Unwrap(pagination.after)) * 86400}
    ELSE rows

\* paginate: the filter on the column block_time
paginate_filter(pagination, rows) ==
    IF pagination.kind = "Keyset"
    THEN {r \in rows :
            /\ IsSome(pagination.before) =>
                  ColumnValue(r, "block_time")[1]
                      < LocalInstant(Unwrap(pagination.before), 23, 59, 59)
            /\ IsSome(pagination.after) =>
                  ColumnValue(r, "block_time")[1]
                      > LocalInstant(Unwrap(pagination.after), 0, 0, 0)}
    ELSE rows

\* variant: no LIMIT
paginate_unlimited(pagination, limit, s) ==
    LET offset == IF pagination.kind = "Page" /\ pagination.page > 0
                  THEN (pagination.page - 1) * limit ELSE 0
    IN  SubSeq(s, offset + 1, Len(s))

\* paginate: OFFSET and LIMIT on the ordered rows
paginate_window(pagination, limit, s) ==
    LET offset == IF pagination.kind = "Page" /\ pagination.page > 0
                  THEN (pagination.page - 1) * limit ELSE 0
        last == IF offset + limit < Len(s) THEN offset + limit ELSE Len(s)
    IN  SubSeq(s, offset + 1, last)

\* the ORDER BY terms of Dao::get_transactions_by_address, in the order the
\* query builder received them
AddressOrder(sort_direction, sort_by) ==
    <<[col |-> "block_time", dir |-> "Asc"], [col |-> "signature", dir |-> "Asc"]>>
    \o (IF IsSome(sort_by)
        THEN <<[col |-> Unwrap(sort_by), dir |-> sort_direction],
               [col |-> "block_time", dir |-> sort_direction]>>
        ELSE <<>>)

\* Dao::get_transactions_by_address: the row vectors the query may return
\* from the committed rows
dao_get_transactions_by_address(source, destination, mint, pagination, limit, sort_direction, sort_by) ==
    LET matching == {r \in db_transfers :
                        /\ ColumnValue(r, "source_address") = source
                        /\ IsSome(destination) =>
                              ColumnValue(r, "destination_address") = Unwrap(destination)
                        /\ IsSome(mint) =>
                              ColumnValue(r, "mint_address") = Unwrap(mint)}
    IN  {paginate_window(pagination, limit, s) :
            s \in Select(paginate_filter(pagination, matching),
                         AddressOrder(sort_direction, sort_by))}

\* variant: a stored row is returned whatever the id
LookupAny(id) ==
    IF db_transfers = {} THEN {Err(<<"TransactionNotFound", id>>)}
    ELSE {Ok(r) : r \in db_transfers}

\* Dao::get_transaction_by_id: the results the lookup may give
dao_get_transaction_by_id(id) ==
    LET d == bs58_decode(id)
        found == {r \in db_transfers : ColumnValue(r, "signature") = d.bytes}
    IN  IF ~d.ok THEN {Err(<<"DatabaseError">>)}
        ELSE IF found = {} THEN {Err(<<"TransactionNotFound", id>>)}
        ELSE {Ok(r) : r \in found}

\* Transaction::from(token_transfers::Model)
TransactionFrom(model) ==
    [signature |-> bs58_encode(ColumnValue(model, "signature")),
     source_address |-> bs58_encode(ColumnValue(model, "source_address")),
     destination_address |-> bs58_encode(ColumnValue(model, "destination_address")),
     mint_address |-> Some(bs58_encode(ColumnValue(model, "mint_address"))),
     slot |-> model.slot, amount |-> model.amount, error |-> model.error,
     block_time |-> model.block_time]

\* NaiveDate::format("%d/%m/%Y")
FormatDate(date) ==
    <<Digits[(date.day \div 10) + 1], Digits[(date.day % 10) + 1], "/",
      Digits[(date.month \div 10) + 1], Digits[(date.month % 10) + 1], "/",
      Digits[(date.year \div 1000) + 1], Digits[((date.year \div 100) % 10) + 1],
      Digits[((date.year \div 10) % 10) + 1], Digits[(date.year % 10) + 1]>>

\* Api::build_transaction_response
build_transaction_response(transactions, limit, pagination) ==
    [total |-> Len(transactions), limit |-> limit,
     page |-> IF pagination.kind = "Page" THEN Some(pagination.page) ELSE None,
     before |-> IF pagination.kind = "Keyset" /\ IsSome(pagination.before)
                THEN Some(FormatDate(Unwrap(pagination.before))) ELSE None,
     after |-> IF pagination.kind = "Keyset" /\ IsSome(pagination.after)
               THEN Some(FormatDate(Unwrap(pagination.after))) ELSE None,
     items |-> transactions]

\* the handler of getTransactionsByAddress from the validated keys on: the
\* responses it may give
AddressResponses(payload, source, overflow_checks) ==
    LET destination == IF IsSome(payload.destination)
                       THEN validate_pubkey(Unwrap(payload.destination))
                       ELSE [ok |-> TRUE, bytes |-> <<>>]
        mint == IF IsSome(payload.mint) THEN validate_pubkey(Unwrap(payload.mint))
                ELSE [ok |-> TRUE, bytes |-> <<>>]
        page == validate_pagination(payload.limit, payload.page, payload.before,
                                    payload.after, overflow_checks)
        pagination == create_pagination(Unwrap(page.value))
        sorting == create_sorting(IF IsSome(payload.sort_by)
                                  THEN Unwrap(payload.sort_by) ELSE DefaultSorting)
    IN  IF ~destination.ok
        THEN {Err(<<"PubkeyValidationError", Unwrap(payload.destination)>>)}
        ELSE IF ~mint.ok
        THEN {Err(<<"PubkeyValidationError", Unwrap(payload.mint)>>)}
        ELSE IF page.kind # "Ok" THEN {page}
        ELSE IF ~pagination.ok THEN {Err(<<"PaginationError">>)}
        ELSE {Ok(build_transaction_response(
                     [i \in 1..Len(models) |-> TransactionFrom(models[i])],
                     Unwrap(page.value).limit, pagination)) :
                 models \in dao_get_transactions_by_address(
                     source.bytes,
                     IF IsSome(payload.destination) THEN Some(destination.bytes) ELSE None,
                     IF IsSome(payload.mint) THEN Some(mint.bytes) ELSE None,
                     pagination, Unwrap(page.value).limit,
                     sorting.direction, sorting.column)}

\* ApiContract::get_transactions_by_address as the RPC method runs it: the
\* payload is read from the parameters, where the handler's source is a
\* String the request must carry
get_transactions_by_address(payload) ==
    /\ ~api_out.done
    /\ api_in' = payload
    /\ \E overflow_checks \in BOOLEAN :
          IF payload.source = None
          THEN api_out' = Err(<<"InvalidParams">>)
          ELSE LET source == validate_pubkey(Unwrap(payload.source))
               IN  IF ~source.ok
                   THEN api_out' = Err(<<"PubkeyValidationError", Unwrap(payload.source)>>)
                   ELSE api_out' \in AddressResponses(payload, source, overflow_checks)
    /\ UNCHANGED <<page_in, page_out, pages>>
    /\ UNCHANGED <<svars, dvars, mvars, wvars, pvars>>

\* Dao::get_transaction_by_id called with an id
get_transaction_by_id(id) ==
    /\ ~api_out.done
    /\ api_in' = [op |-> "get_transaction_by_id", id |-> id]
    /\ api_out' \in dao_get_transaction_by_id(id)
    /\ UNCHANGED <<page_in, page_out, pages>>
    /\ UNCHANGED <<svars, dvars, mvars, wvars, pvars>>

\* the caller takes the response
api_return ==
    /\ api_out.done
    /\ api_in' = [op |-> "none"] /\ api_out' = NoCall
    /\ UNCHANGED <<page_in, page_out, pages>>
    /\ UNCHANGED <<svars, dvars, mvars, wvars, pvars>>

\* the requests
Text_01_01_1970 == <<"0", "1", "/", "0", "1", "/", "1", "9", "7", "0">>

Text_02_01_1970 == <<"0", "2", "/", "0", "1", "/", "1", "9", "7", "0">>

Payloads ==
    [op : {"get_transactions_by_address"},
     source : {None, Some(Key_a), Some(Key_b), Some(Key_other), Some(Key_bad)},
     destination : {None, Some(Key_b), Some(Key_long)},
     mint : {None, Some(Key_m), Some(Key_n)},
     limit : {None, Some(1), Some(1001)},
     page : {None, Some(1), Some(2)},
     before : {None, Some(Text_01_01_1970)},
     after : {None, Some(Text_02_01_1970)},
     sort_by : {None, Some([sort_by |-> "created", sort_direction |-> Some("Asc")])}]

Ids == {Id_1, Id_2, Id_3, Id_other, Id_short, Id_unknown_txn}

\* the blocks the indexer stores while the API is queried
ApiBlocks == {B1, B2}

InitApi ==
    /\ StreamIdle
    /\ DaoInit
    /\ MergeIdle
    /\ WriterInit
    /\ ProcIdle
    /\ ApiIdle

NextApi ==
    \/ \E b \in ApiBlocks : \E order \in SeqsOf(parse_block_state_update(b)) :
          index_block(b, order)
    \/ DaoExec
    \/ DaoCommit
    \/ \E payload \in Payloads : get_transactions_by_address(payload)
    \/ \E id \in Ids : get_transaction_by_id(id)
    \/ api_return

SpecApi == InitApi /\ [][NextApi]_vars

(***************************************************************************)
(* api: a result read page by page, and the queries by date                *)
(***************************************************************************)
\* Dao::get_transactions_by_mint: the row vectors the query may return
dao_get_transactions_by_mint(mint, pagination, limit, sort_direction, sort_by) ==
    LET matching == {r \in db_transfers : ColumnValue(r, "mint_address") = mint}
    IN  {paginate_window(pagination, limit, s) :
            s \in Select(paginate_filter(pagination, matching),
                         AddressOrder(sort_direction, sort_by))}

\* the stored rows of a mint
OfMint(mint) == {r \in db_transfers : ColumnValue(r, "mint_address") = mint}

\* ceil(n / l)
PagesOf(n, l) == (n + l - 1) \div l

\* a client starts to read the transfers of a mint, limit rows a page
scan_start(mint, limit) ==
    /\ ~pages.on
    /\ pages' = [on |-> TRUE, mint |-> mint, limit |-> limit, table |-> db_transfers,
                 got |-> <<>>]
    /\ UNCHANGED <<page_in, page_out, api_in, api_out>>
    /\ UNCHANGED <<svars, dvars, mvars, wvars, pvars>>

\* the client asks for its next page: get_transactions_by_mint with
\* Pagination::Page and the default sorting
scan_next ==
    /\ pages.on
    /\ Len(pages.got) < PagesOf(Cardinality(OfMint(pages.mint)), pages.limit)
    /\ \E models \in dao_get_transactions_by_mint(
                         pages.mint,
                         create_pagination([limit |-> pages.limit,
                                            page |-> Some(Len(pages.got) + 1),
                                            before |-> None, after |-> None]),
                         pages.limit,
                         create_sorting(DefaultSorting).direction,
                         create_sorting(DefaultSorting).column) :
          pages' = [pages EXCEPT !.got = Append(@, models)]
    /\ UNCHANGED <<page_in, page_out, api_in, api_out>>
    /\ UNCHANGED <<svars, dvars, mvars, wvars, pvars>>

\* the client has read the last page
scan_end ==
    /\ pages.on
    /\ Len(pages.got) >= PagesOf(Cardinality(OfMint(pages.mint)), pages.limit)
    /\ pages' = NoScan
    /\ UNCHANGED <<page_in, page_out, api_in, api_out>>
    /\ UNCHANGED <<svars, dvars, mvars, wvars, pvars>>

\* the page sizes of the clients
ScanLimits == {1, 2}

InitScan ==
    /\ StreamIdle
    /\ DaoInit
    /\ MergeIdle
    /\ WriterInit
    /\ ProcIdle
    /\ ApiIdle

NextScan ==
    \/ \E b \in ApiBlocks : \E order \in SeqsOf(parse_block_state_update(b)) :
          index_block(b, order)
    \/ DaoExec
    \/ DaoCommit
    \/ \E mint \in {AddressBytes.m, AddressBytes.n} : \E limit \in ScanLimits :
          scan_start(mint, limit)
    \/ scan_next
    \/ scan_end

SpecScan == InitScan /\ [][NextScan]_vars

\* blocks around the end of 01/01/1970 in the zone of paginate: 18:29:59,
\* 18:30:00 and 18:30:01 UTC
T4 == Txn(4, 66599, 3, <<Group("a", "b", "m", 4)>>)

T5 == Txn(5, 66600, 4, <<Group("a", "b", "m", 5)>>)

T6 == Txn(6, 66601, 5, <<Group("a", "b", "m", 6)>>)

B3 == [metadata |-> Meta(3, 2, 66599, 3), transactions |-> <<T4>>]

B4 == [metadata |-> Meta(4, 3, 66600, 4), transactions |-> <<T5>>]

B5 == [metadata |-> Meta(5, 4, 66601, 5), transactions |-> <<T6>>]

QueryBlocks == {B1, B3, B4, B5}

\* the requests by date
QueryPayloads ==
    [op : {"get_transactions_by_address"},
     source : {Some(Key_a)},
     destination : {None},
     mint : {None},
     limit : {None, Some(1)},
     page : {None},
     before : {None, Some(Text_01_01_1970), Some(Text_02_01_1970)},
     after : {None, Some(Text_01_01_1970), Some(Text_02_01_1970)},
     sort_by : {None}]

InitQuery ==
    /\ StreamIdle
    /\ DaoInit
    /\ MergeIdle
    /\ WriterInit
    /\ ProcIdle
    /\ ApiIdle

NextQuery ==
    \/ \E b \in QueryBlocks : \E order \in SeqsOf(parse_block_state_update(b)) :
          index_block(b, order)
    \/ DaoExec
    \/ DaoCommit
    \/ \E payload \in QueryPayloads : get_transactions_by_address(payload)
    \/ api_return

SpecQuery == InitQuery /\ [][NextQuery]_vars

(***************************************************************************)
(* Properties of the composed streamer                                     *)
(***************************************************************************)
EmittedSlots == {emitted[i].slot : i \in 1..Len(emitted)}

\* C1: every emitted block's parent_slot is the slot of the block emitted
\* just before it (the configured last_indexed_slot for the first one),
\* whichever source delivered it.
C1_ParentContinuity ==
    \A i \in 1..Len(emitted) :
        emitted[i].parent_slot =
            IF i = 1 THEN config_last_indexed_slot ELSE emitted[i-1].slot

\* a block from the poll fallback followed, after the gap, by a pushed block
C1_Witness ==
    /\ Len(gap) >= 1
    /\ \E i, j \in 1..Len(emitted) :
          /\ gap[1].at < i /\ i < j
          /\ emitted[i].src = "poll" /\ emitted[j].src = "push"

C2_Increasing ==
    \A i, j \in 1..Len(emitted) :
        (i < j /\ emitted[j].parent_slot < emitted[j].slot)
            => emitted[i].slot < emitted[j].slot

C2_Step ==
    /\ last_indexed_slot' # last_indexed_slot => Len(emitted') = Len(emitted) + 1
    /\ Len(emitted') = Len(emitted) + 1
          => /\ last_indexed_slot' = emitted'[Len(emitted')].slot
             /\ SubSeq(emitted', 1, Len(emitted)) = emitted
    /\ emitted' # emitted => Len(emitted') = Len(emitted) + 1
    /\ last_indexed_slot' >= last_indexed_slot

\* C2: the emitted slots are strictly increasing (for blocks with
\* parent_slot < slot), and last_indexed_slot changes only when a block is
\* emitted, to that block's slot, and never decreases.
C2_Monotonic == [](C2_Increasing) /\ [][C2_Step]_vars

\* three blocks emitted, from both sources
C2_Witness ==
    /\ Len(emitted) >= 3
    /\ emitted[1].src = "push"
    /\ \E i \in 2..Len(emitted) : emitted[i].src = "poll"
    /\ last_indexed_slot = emitted[Len(emitted)].slot

\* the gap episode gap[k] is over: the poll stream ended or was dropped
GapClosed(k) == k < Len(gap) \/ ~rpc_poll_stream.on

\* every slot of the gap holds a block the poll parser accepts
GapClean(g) ==
    /\ g.from >= 1 /\ g.to > g.from
    /\ \A s \in (g.from + 1)..g.to : s \in produced /\ s \notin malformed

\* the blocks of the gap were emitted in order, the last one from src
GapFilled(g, src) ==
    /\ Len(emitted) >= g.at + (g.to - g.from)
    /\ last_indexed_slot >= g.to
    /\ \A d \in 1..(g.to - g.from) :
          /\ emitted[g.at + d].slot = g.from + d
          /\ emitted[g.at + d].src = IF d = g.to - g.from THEN src ELSE "poll"

C10_IndexRecent ==
    /\ index_recent =>
          /\ Len(gap) = 0 /\ ~rpc_poll_stream.on
          /\ \A s \in pushed : s # 0 =>
                \E i \in 1..Len(emitted) :
                    emitted[i].slot = s /\ emitted[i].src = "push"
    /\ ~index_recent =>
          \A i \in 1..Len(emitted) :
              emitted[i].src = "push" =>
                  emitted[i].parent_slot =
                      IF i = 1 THEN config_last_indexed_slot ELSE emitted[i-1].slot

(***************************************************************************)
(* Properties of the poll streamer                                         *)
(***************************************************************************)
PollIncreasing ==
    \A i, j \in 1..Len(emitted) : i < j => emitted[i].slot < emitted[j].slot

\* the emitted blocks are the well-formed blocks from slot start on, none left out
PollFrom(start) ==
    \A i \in 1..Len(emitted) :
        /\ emitted[i].slot >= start
        /\ \A s \in Existing \ malformed :
              (start <= s /\ s < emitted[i].slot)
                  => \E j \in 1..(i-1) : emitted[j].slot = s

\* C9 as stated: increasing, no repeats, starting at last_indexed_slot + 1,
\* or at 0 when last_indexed_slot is 0.
C9_StartsAtLastPlusOne ==
    /\ PollIncreasing
    /\ PollFrom(IF config_last_indexed_slot = 0 THEN 0
                ELSE config_last_indexed_slot + 1)

\* C9 (amended): increasing, no repeats, whatever the completion order of
\* the fetches; the first slot is last_indexed_slot + 1, or, when
\* last_indexed_slot is 0, the head slot read at start-up.
C9_PollOrder ==
    /\ PollIncreasing
    /\ PollFrom(IF config_last_indexed_slot = 0 THEN last_indexed_slot_at_start
                ELSE config_last_indexed_slot + 1)

\* a window whose fetches completed out of slot order has been emitted
C9_Witness ==
    /\ Len(rpc_poll_stream.results) >= 2
    /\ rpc_poll_stream.phase = "top"
    /\ rpc_poll_stream.results[1].ok /\ rpc_poll_stream.results[2].ok
    /\ rpc_poll_stream.results[1].block.slot > rpc_poll_stream.results[2].block.slot
    /\ Len(emitted) >= 2
    /\ emitted[Len(emitted)] .slot = rpc_poll_stream.results[1].block.slot
    /\ emitted[Len(emitted) - 1].slot = rpc_poll_stream.results[2].block.slot

(***************************************************************************)
(* Properties of the storage                                               *)
(***************************************************************************)
C5_NoError == dao.replay => dao.result # "sql_error"

C5_Step ==
    (dao.stage = "open" /\ dao.replay /\ dao'.stage = "idle" /\ dao'.result = "ok")
        => (db_blocks' = db_blocks /\ db_transfers' = db_transfers)

\* C5: indexing again what has been indexed, through any entry point,
\* leaves both tables as they are and raises no SQL error.
C5_Replay == [](C5_NoError) /\ [][C5_Step]_vars

\* a batch holding an already indexed block and its transfers has been
\* indexed again, with rows in both tables
C5_Witness ==
    /\ dao.stage = "idle" /\ dao.result = "ok" /\ dao.replay
    /\ dao.op = "index_block_batch"
    /\ B1.metadata \in dao.metas /\ T2 \in dao.txs
    /\ Cardinality(db_transfers) >= 3 /\ db_blocks # {}

C6_PkUnique ==
    \A r1, r2 \in db_transfers :
        KeyOf(r1, PkTokenTransfers) = KeyOf(r2, PkTokenTransfers) => r1 = r2

C6_Step == \A r \in db_transfers : r \in db_transfers'

\* C6: a stored transfer row keeps all its columns whatever is inserted
\* later, and no two stored rows share a primary key.
C6_Immutable == [](C6_PkUnique) /\ [][C6_Step]_vars

\* T1's row is stored with its amount although T1v (same key, other amount)
\* was committed by a later call
C6_Witness ==
    /\ dao.stage = "idle" /\ dao.result = "ok" /\ T1v \in dao.txs
    /\ T1 \notin dao.txs /\ T1 \in stored_txs
    /\ \E r \in db_transfers : r.signature = 1 /\ r.amount = 5 /\ r.created_at < now

(***************************************************************************)
(* Properties of merge_updates                                             *)
(***************************************************************************)
\* the two halves of the list merged separately, then together
MergeSplit(k) ==
    merge_updates(<<merge_updates(SubSeq(merge_in, 1, k)),
                    merge_updates(SubSeq(merge_in, k + 1, Len(merge_in)))>>)

\* the list taken in the order perm (a sequence of its indices)
Permuted(perm) == [i \in 1..Len(merge_in) |-> merge_in[perm[i]]]

\* C7: merge_updates returns the union of the updates' transactions; it is
\* associative, independent of the order of the list and idempotent, and
\* the empty list gives the default update.
C7_MergeIsUnion ==
    merge_out.done =>
        /\ merge_out.transactions = UNION {merge_in[i] : i \in 1..Len(merge_in)}
        /\ \A k \in 0..Len(merge_in) : MergeSplit(k) = merge_out.transactions
        /\ \A perm \in SeqsOf(1..Len(merge_in)) :
              merge_updates(Permuted(perm)) = merge_out.transactions
        /\ merge_updates(<<merge_out.transactions, merge_out.transactions>>)
              = merge_out.transactions
        /\ merge_in = <<>> => merge_out.transactions = DefaultStateUpdate

\* three overlapping updates merged: the shared transaction appears once
C7_Witness ==
    /\ merge_out.done /\ Len(merge_in) = 3
    /\ merge_in[1] = {T1, T2} /\ merge_in[2] = {T2, T1v} /\ merge_in[3] = {T1}
    /\ merge_out.transactions = {T1, T1v, T2}

(***************************************************************************)
(* Properties of the writer pipeline                                       *)
(***************************************************************************)
MetaStored(b) == BlockModel(b.metadata) \in db_blocks

TransfersStored(b) ==
    \A i \in 1..Len(TransferModels(b.transactions, 0)) :
        \E r \in db_transfers :
            KeyOf(r, PkTokenTransfers)
                = KeyOf(TransferModels(b.transactions, 0)[i], PkTokenTransfers)

\* nothing queued, nothing being written, every block handed over
WriterQuiescent ==
    /\ sent = Len(WriterBlocks)
    /\ block_chan = <<>> /\ txn_chan = <<>>
    /\ \A w \in Workers :
          block_workers[w].pc # "write" /\ txn_workers[w].pc # "write"

\* C4: every block handed to the writer ends up stored, metadata and
\* transfers, also when a DB transaction of a worker fails (stated on the
\* final state: once nothing is queued or in progress, nothing is missing).
C4_AtLeastOnce ==
    WriterQuiescent => \A b \in Handed : MetaStored(b) /\ TransfersStored(b)

\* C8: the metadata row of a block handed to the writer is stored exactly
\* when all its transfer rows are.
C8_AtomicBatch ==
    \A b \in Handed : MetaStored(b) <=> TransfersStored(b)

(***************************************************************************)
(* Properties of the start-up                                              *)
(***************************************************************************)
\* C11: with start slot 0 (last_indexed_slot 0) the first block emitted is at
\* or above the head read at start-up; with a start slot S (last_indexed_slot
\* the parent slot of S) the first block emitted is the block at slot S.
C11_StartSlot ==
    Len(emitted) >= 1 =>
        IF config_last_indexed_slot = 0
        THEN emitted[1].slot >= last_indexed_slot_at_start
        ELSE /\ emitted[1].parent_slot = config_last_indexed_slot
             /\ emitted[1].slot > config_last_indexed_slot

(***************************************************************************)
(* Properties of the shutdown                                              *)
(***************************************************************************)
WorkersExited ==
    \A w \in Workers :
        block_workers[w].pc = "exited" /\ txn_workers[w].pc = "exited"

\* C12: after the signal the streamer task is aborted and every block
\* worker and transaction worker leaves its loop, wherever it was when the
\* signal arrived.
C12_Shutdown ==
    [](main_pc = "returned" => <>(streamer_task = "aborted" /\ WorkersExited))

(***************************************************************************)
(* Properties of the DAO's transactions                                    *)
(***************************************************************************)
\* the rows of the call in progress are in the tables t_blocks, t_transfers
\* (a row stored earlier under the same primary key stands for the row)
CallPersisted(t_blocks, t_transfers) ==
    /\ \A m \in dao.metas :
          \E r \in t_blocks : KeyOf(r, PkBlocks) = KeyOf(BlockModel(m), PkBlocks)
    /\ \A tx \in dao.txs :
          \A i \in 1..Len(TransferModels(<<tx>>, 0)) :
              \E r \in t_transfers :
                  KeyOf(r, PkTokenTransfers)
                      = KeyOf(TransferModels(<<tx>>, 0)[i], PkTokenTransfers)

C13_Step ==
    (dao.stage = "open" /\ dao.op = "index_block") =>
        IF dao'.stage = "idle" /\ dao'.result = "ok"
        THEN CallPersisted(db_blocks', db_transfers')
        ELSE db_blocks' = db_blocks /\ db_transfers' = db_transfers

\* C13: index_block stores the block's metadata and all its transfers when it
\* returns Ok, and leaves both tables as they were when it returns an error,
\* whether the error comes at begin, at an insert or at commit.
C13_AllOrNothing == [][C13_Step]_vars

\* index_block failed after its metadata insert and a transfer insert had run
C13_Witness ==
    /\ dao.stage = "idle" /\ dao.op = "index_block" /\ dao.result = "db_error"
    /\ dao.blocks # db_blocks /\ dao.transfers # db_transfers

BlocksPkUnique ==
    \A r1, r2 \in db_blocks : KeyOf(r1, PkBlocks) = KeyOf(r2, PkBlocks) => r1 = r2

InBatches == dao.op = "index_block_batches" /\ dao.stage # "idle"

C14_Step ==
    InBatches =>
        /\ dao'.stage = "idle" =>
              /\ dao.stage = "open" /\ dao'.result = "ok"
              /\ CallPersisted(db_blocks', db_transfers')
        /\ dao'.stage # "idle" =>
              /\ db_blocks' = db_blocks /\ db_transfers' = db_transfers
              /\ dao'.batch = dao.batch
        /\ (dao.stage = "retry" /\ dao' # dao) =>
              dao'.stage = "open" /\ dao'.attempt = dao.attempt + 1

LimitRule == IsSome(page_in.limit) /\ Unwrap(page_in.limit) > 1000

ZeroRule == page_in.page = Some(0)

MixRule == IsSome(page_in.page) /\ (IsSome(page_in.before) \/ IsSome(page_in.after))

\* (page - 1) * limit > 500 000 over the integers
OffsetRule ==
    /\ IsSome(page_in.page) /\ Unwrap(page_in.page) >= 1
    /\ LET lim == IF IsSome(page_in.limit) THEN Unwrap(page_in.limit) ELSE 1000
       IN  lim > 0 /\ Unwrap(page_in.page) - 1 > 500000 \div lim

DateRule(d) == IsSome(d) /\ ~parse_from_str(Unwrap(d)).ok

RECURSIVE NumOf(_)
NumOf(digits) ==
    IF digits = <<>> THEN 0
    ELSE 10 * NumOf(SubSeq(digits, 1, Len(digits) - 1)) + DigitValue(digits[Len(digits)])

\* the calendar date a text day/month/year stands for
ReadDate(text) ==
    LET slashes == {i \in 1..Len(text) : text[i] = "/"}
        i1 == CHOOSE i \in slashes : \A j \in slashes : i <= j
        i2 == CHOOSE i \in slashes : \A j \in slashes : j <= i
    IN  [year |-> NumOf(SubSeq(text, i2 + 1, Len(text))),
         month |-> NumOf(SubSeq(text, i1 + 1, i2 - 1)),
         day |-> NumOf(SubSeq(text, 1, i1 - 1))]

ReadOpt(d) == IF IsSome(d) THEN Some(ReadDate(Unwrap(d))) ELSE None

Rejected(e) == page_out.kind = "Err" /\ page_out.err = e

\* C17: limit > 1000 is refused with PaginationExceededError, page 0 with
\* PaginationEmptyError, a page given with before or after with
\* PaginationError (the first broken rule in this order decides); an input
\* that breaks no rule is accepted, the limit defaulting to 1000, with the
\* given page and the dates as given.
C17_PaginationValidation ==
    page_out.done =>
        /\ LimitRule => Rejected(<<"PaginationExceededError">>)
        /\ (ZeroRule /\ ~LimitRule) => Rejected(<<"PaginationEmptyError">>)
        /\ (MixRule /\ ~ZeroRule /\ ~LimitRule) => Rejected(<<"PaginationError">>)
        /\ (~LimitRule /\ ~ZeroRule /\ ~MixRule /\ ~OffsetRule
               /\ ~DateRule(page_in.before) /\ ~DateRule(page_in.after)) =>
              /\ page_out.kind = "Ok"
              /\ page_out.value[1].limit =
                     (IF IsSome(page_in.limit) THEN Unwrap(page_in.limit) ELSE 1000)
              /\ page_out.value[1].page = page_in.page
              /\ page_out.value[1].before = ReadOpt(page_in.before)
              /\ page_out.value[1].after = ReadOpt(page_in.after)

\* a request by dates without a limit was accepted with limit 1000; the
\* request space also holds page 0 and a page given with a date
C17_Witness ==
    /\ page_out.done /\ page_out.kind = "Ok"
    /\ page_in.limit = None /\ page_out.value[1].limit = 1000
    /\ page_in.before = Some(Text_01_01_2024) /\ page_in.after = Some(Text_31_12_2023)
    /\ page_out.value[1].after = Some([year |-> 2023, month |-> 12, day |-> 31])

\* C18: a page request is refused with OffsetLimitExceededError exactly when
\* (page - 1) * limit exceeds 500 000, and {page: 100, limit: 10000} is
\* refused with that error.
C18_OffsetLimit ==
    page_out.done =>
        /\ (OffsetRule /\ ~LimitRule /\ ~MixRule) =>
              Rejected(<<"OffsetLimitExceededError">>)
        /\ Rejected(<<"OffsetLimitExceededError">>) => OffsetRule
        /\ (page_in.page = Some(100) /\ page_in.limit = Some(10000)
               /\ page_in.before = None /\ page_in.after = None) =>
              Rejected(<<"OffsetLimitExceededError">>)

\* C19: a before or after that does not parse as day/month/year is refused
\* with InvalidDate naming that field (before first); one that parses is
\* stored as the calendar date it stands for.
C19_DateValidation ==
    page_out.done =>
        /\ (DateRule(page_in.before) /\ ~LimitRule /\ page_in.page = None) =>
              Rejected(<<"InvalidDate", "before">>)
        /\ (DateRule(page_in.after) /\ ~DateRule(page_in.before)
               /\ ~LimitRule /\ page_in.page = None) =>
              Rejected(<<"InvalidDate", "after">>)
        /\ Rejected(<<"InvalidDate", "before">>) => DateRule(page_in.before)
        /\ Rejected(<<"InvalidDate", "after">>) => DateRule(page_in.after)
        /\ page_out.kind = "Ok" =>
              /\ page_out.value[1].before = ReadOpt(page_in.before)
              /\ page_out.value[1].after = ReadOpt(page_in.after)

\* after = 2024-01-01 was refused although before was a good date
C19_Witness ==
    /\ page_out.done /\ Rejected(<<"InvalidDate", "after">>)
    /\ page_in.after = Some(Text_iso) /\ page_in.before = Some(Text_29_02_2024)

(***************************************************************************)
(* Properties of the queries                                               *)
(***************************************************************************)
\* a call of op returns in this step
Returns(op) == ~api_out.done /\ api_out'.done /\ api_in'.op = op

\* the text of a stored key
KeyText(row, col) == bs58_encode(AddressBytes[row[col]])

\* the stored rows a payload with a source asks for
Asked(payload) ==
    {r \in db_transfers :
        /\ KeyText(r, "source_address") = Unwrap(payload.source)
        /\ IsSome(payload.destination) =>
              KeyText(r, "destination_address") = Unwrap(payload.destination)
        /\ IsSome(payload.mint) => KeyText(r, "mint_address") = Unwrap(payload.mint)}

IsKey(text) == text \in {Key_a, Key_b, Key_m, Key_n, Key_other}

\* every key of the payload is a public key and its paging is legal
WellFormed(payload) ==
    /\ IsSome(payload.source) => IsKey(Unwrap(payload.source))
    /\ IsSome(payload.destination) => IsKey(Unwrap(payload.destination))
    /\ IsSome(payload.mint) => IsKey(Unwrap(payload.mint))
    /\ IsSome(payload.limit) => Unwrap(payload.limit) <= 1000
    /\ IsSome(payload.page) =>
          Unwrap(payload.page) > 0 /\ payload.before = None /\ payload.after = None
    /\ ~DateRule(payload.before) /\ ~DateRule(payload.after)

Smaller(x, y) == IF x < y THEN x ELSE y

\* the number of rows page p of size l holds out of n
PageSize(n, l, p) == IF n > (p - 1) * l THEN Smaller(l, n - (p - 1) * l) ELSE 0

C15_Step ==
    (Returns("get_transactions_by_address") /\ IsSome(api_in'.source)
        /\ WellFormed(api_in')) =>
        LET payload == api_in'
            limit == IF IsSome(payload.limit) THEN Unwrap(payload.limit) ELSE 1000
            page == IF IsSome(payload.page) THEN Unwrap(payload.page) ELSE 1
            asked == {TransactionFrom(r) : r \in Asked(payload)}
        IN  /\ api_out'.kind = "Ok"
            /\ LET items == api_out'.value[1].items
               IN  /\ Range(items) \subseteq asked
                   /\ Cardinality(Range(items)) = Len(items)
                   /\ Len(items) <= limit
                   /\ api_out'.value[1].total = Len(items)
                   /\ (payload.before = None /\ payload.after = None) =>
                         Len(items) = PageSize(Cardinality(asked), limit, page)

\* C15: get_transactions_by_address returns stored rows only, each matching
\* the source and the destination and mint when given, none twice, and as
\* many of them as the page can hold: all of them when they fit the limit,
\* and an empty list (no error) when the source has no transfer.
C15_ByAddress == [][C15_Step]_vars

\* source a, destination b and mint m with limit 1 returned one of the two
\* or more stored transfers; the empty answer for an account without
\* transfers is the case of Key_other in the same run
C15_Witness ==
    /\ api_out.done /\ api_out.kind = "Ok"
    /\ api_in.op = "get_transactions_by_address"
    /\ api_in.source = Some(Key_a) /\ api_in.destination = Some(Key_b)
    /\ api_in.mint = Some(Key_m) /\ api_in.limit = Some(1)
    /\ Len(api_out.value[1].items) = 1
    /\ api_out.value[1].items[1].source_address = Key_a
    /\ Cardinality(Asked(api_in)) >= 2

\* the stored rows whose signature reads id
Signed(id) == {r \in db_transfers : bs58_encode(SignatureBytes(r.signature)) = id}

C16_Step ==
    Returns("get_transaction_by_id") =>
        LET id == api_in'.id
        IN  /\ Signed(id) # {} =>
                  api_out'.kind = "Ok" /\ api_out'.value[1] \in Signed(id)
            /\ Signed(id) = {} => api_out'.kind = "Err"
            /\ (Signed(id) = {} /\ \A i \in 1..Len(id) : IsBase58(id[i])) =>
                  api_out'.err = <<"TransactionNotFound", id>>

\* C16: the id of a stored transfer gives a row with that signature; an id
\* whose signature is not stored gives an error, TransactionNotFound when
\* the id is base58, and never a row.
C16_LookupById == [][C16_Step]_vars

\* the lookup of signature 2, stored with two transfers, gave one of them
C16_Witness ==
    /\ api_out.done /\ api_out.kind = "Ok"
    /\ api_in.op = "get_transaction_by_id" /\ api_in.id = Id_2
    /\ api_out.value[1].signature = 2
    /\ Cardinality(Signed(Id_2)) = 2

C20_Step ==
    (Returns("get_transactions_by_address") /\ WellFormed(api_in')) =>
        IF api_in'.source = None /\ api_in'.destination = None /\ api_in'.mint = None
        THEN api_out'.kind = "Err" /\ api_out'.err[1] = "InvalidInput"
        ELSE api_out'.kind = "Ok"

\* C20: get_transactions_by_address accepts a request that carries at least
\* one of source, destination and mint, and refuses one that carries none
\* with InvalidInput.
C20_EmptyFilter == [][C20_Step]_vars

(***************************************************************************)
(* Properties of paging, sorting and the date bounds                       *)
(***************************************************************************)
RECURSIVE Concat(_)
Concat(ss) == IF ss = <<>> THEN <<>> ELSE Head(ss) \o Concat(Tail(ss))

\* the client has read every page and the table is the one it started on
ScanComplete ==
    /\ pages.on /\ db_transfers = pages.table
    /\ Len(pages.got) = PagesOf(Cardinality(OfMint(pages.mint)), pages.limit)

\* C21: over an unchanging table, the pages 1..ceil(N/L) of a mint's
\* transfers hold every matching row exactly once, also when rows share
\* block_time and signature.
C21_PaginationLaw ==
    ScanComplete =>
        /\ Range(Concat(pages.got)) = OfMint(pages.mint)
        /\ Len(Concat(pages.got)) = Cardinality(OfMint(pages.mint))

\* the direction a payload asks for
AskedDirection(payload) ==
    IF IsSome(payload.sort_by) /\ IsSome(Unwrap(payload.sort_by).sort_direction)
    THEN Unwrap(Unwrap(payload.sort_by).sort_direction)
    ELSE "Desc"

\* item x may stand before item y: block_time in the direction, then
\* signature ascending
InOrder(x, y, direction) ==
    LET tx == x.block_time.secs - x.block_time.offset
        ty == y.block_time.secs - y.block_time.offset
    IN  \/ (IF direction = "Asc" THEN tx < ty ELSE tx > ty)
        \/ tx = ty /\ Compare(bs58_decode(x.signature).bytes,
                              bs58_decode(y.signature).bytes) <= 0

C22_Step ==
    (Returns("get_transactions_by_address") /\ api_out'.kind = "Ok") =>
        LET items == api_out'.value[1].items
        IN  \A i \in 1..Len(items) : \A j \in 1..Len(items) :
                i < j => InOrder(items[i], items[j], AskedDirection(api_in'))

\* C22: the items are ordered by block_time in the requested direction,
\* newest first when no direction is given, with signature ascending
\* between items of one block_time.
C22_SortOrder == [][C22_Step]_vars

\* the day of January 1970 a date text names, counted from the 1st
DayOf(text) == ReadDate(text).day - 1

\* the instant t, in seconds since the epoch, as a day and a second of that
\* day on a clock five and a half hours ahead of UTC
ClockDay(t) == (t + 19800) \div 86400

ClockSecond(t) == (t + 19800) % 86400

\* t lies before 23:59:59 of the before date and after 00:00:00 of the
\* after date
InsideWindow(t, payload) ==
    /\ IsSome(payload.before) =>
          \/ ClockDay(t) < DayOf(Unwrap(payload.before))
          \/ ClockDay(t) = DayOf(Unwrap(payload.before)) /\ ClockSecond(t) < 86399
    /\ IsSome(payload.after) =>
          \/ ClockDay(t) > DayOf(Unwrap(payload.after))
          \/ ClockDay(t) = DayOf(Unwrap(payload.after)) /\ ClockSecond(t) > 0

C23_Step ==
    (Returns("get_transactions_by_address") /\ api_in'.page = None
        /\ IsSome(api_in'.source) /\ WellFormed(api_in')) =>
        LET payload == api_in'
            limit == IF IsSome(payload.limit) THEN Unwrap(payload.limit) ELSE 1000
            inside == {TransactionFrom(r) :
                          r \in {x \in Asked(payload) :
                                    InsideWindow(x.block_time.secs, payload)}}
        IN  /\ api_out'.kind = "Ok"
            /\ Range(api_out'.value[1].items) \subseteq inside
            /\ Len(api_out'.value[1].items) = Smaller(limit, Cardinality(inside))
            /\ Cardinality(Range(api_out'.value[1].items)) = Len(api_out'.value[1].items)

\* C23: with before = D and after = E a row is returned exactly when its
\* block_time is strictly before D 23:59:59 and strictly after E 00:00:00,
\* both on one clock (UTC+5:30), up to the limit.
C23_Keyset == [][C23_Step]_vars

\* the day 01/01/1970 was asked for with transfers stored at 18:29:59 and
\* 18:30:00 UTC of that day: the two transfers of 00:00:10 came back
C23_Witness ==
    /\ api_out.done /\ api_out.kind = "Ok"
    /\ api_in.op = "get_transactions_by_address"
    /\ api_in.before = Some(Text_01_01_1970) /\ api_in.after = Some(Text_01_01_1970)
    /\ api_in.limit = None
    /\ Len(api_out.value[1].items) = 2
    /\ \E r \in db_transfers : r.block_time.secs = 66599
    /\ \E r \in db_transfers : r.block_time.secs = 66600

(***************************************************************************)
(* Properties of the gap episodes                                          *)
(***************************************************************************)
\* the streamer is in Push+Poll
InGap == rpc_poll_stream.on

\* the steps of a gap episode whose poll stream starts at slot first
GapStep(first) ==
    /\ (~InGap /\ InGap') =>
          /\ \E s \in pushed' \ pushed :
                /\ s = push_cursor' /\ s # 0
                /\ ParentOf(s) # last_indexed_slot
                /\ rpc_poll_stream'.end_block_slot = s
          /\ rpc_poll_stream'.current_slot_to_fetch = first
          /\ ~rpc_poll_stream'.forever
          /\ UNCHANGED <<last_indexed_slot, emitted>>
    /\ (InGap /\ InGap') =>
          /\ rpc_poll_stream'.end_block_slot = rpc_poll_stream.end_block_slot
          /\ \A s \in rpc_poll_stream'.inflight : s <= rpc_poll_stream.end_block_slot
    /\ (InGap /\ ~InGap') =>
          \/ PollerEnded(rpc_poll_stream) /\ UNCHANGED <<last_indexed_slot, emitted>>
          \/ /\ Len(emitted') = Len(emitted) + 1
             /\ emitted'[Len(emitted')].src = "push"
    /\ (~InGap /\ ~InGap' /\ pushed' # pushed) =>
          /\ ParentOf(push_cursor') = last_indexed_slot
          /\ emitted' = Append(emitted, [slot |-> push_cursor',
                                          parent_slot |-> last_indexed_slot,
                                          src |-> "push"])

C24_Step == GapStep(last_indexed_slot + 1)

C24_StepFromZero ==
    GapStep(IF last_indexed_slot = 0 THEN 0 ELSE last_indexed_slot + 1)

DroppedInGap(s) ==
    /\ InGap /\ s \in malformed
    /\ last_indexed_slot < s
    /\ s < rpc_poll_stream.current_slot_to_fetch
    /\ s \notin rpc_poll_stream.inflight

EmittedAbove(s) == \E i \in 1..Len(emitted) : emitted[i].slot > s

\* a well-formed block above s that the poll stream of the episode covers
CoveredAbove(s) ==
    \E h \in produced \ malformed : s < h /\ h <= rpc_poll_stream.end_block_slot

\* C25: the composed streamer goes on after a parse failure: once the block
\* polled at slot s has been rejected, and a well-formed block above s lies
\* within the slots being recovered, a block above s is eventually emitted.
C25_ParseFailure ==
    \A s \in Slots : (DroppedInGap(s) /\ CoveredAbove(s)) ~> EmittedAbove(s)

\* the next block of the chain above last_indexed_slot is one the poll parser
\* rejects, and the push stream is past it
Barrier ==
    \E s \in malformed :
       /\ last_indexed_slot < s /\ s <= push_cursor
       /\ \A p \in produced : ~(last_indexed_slot < p /\ p < s)

\* behind such a block last_indexed_slot never moves again, whatever is
\* pushed or polled afterwards
BarrierStays == [][Barrier => (Barrier' /\ last_indexed_slot' = last_indexed_slot)]_vars

\* the poll-only stream has fetched slot s and the parser rejected the block
DroppedInPoll(s) ==
    /\ rpc_poll_stream.on /\ rpc_poll_stream.forever
    /\ s \in malformed
    /\ last_indexed_slot_at_start <= s
    /\ s < rpc_poll_stream.current_slot_to_fetch
    /\ s \notin rpc_poll_stream.inflight

\* the poll-only streamer goes on after a parse failure: every well-formed
\* block above the rejected one, up to the head the stream has read, is
\* eventually emitted
PollGoesOn ==
    \A s \in Slots : \A h \in Slots :
       (/\ DroppedInPoll(s)
        /\ h \in produced \ malformed
        /\ s < h /\ h <= rpc_poll_stream.end_block_slot)
       ~> (\E i \in 1..Len(emitted) : emitted[i].slot = h)

PollGoesOn_Witness ==
    \E s \in malformed : \E i \in 1..Len(emitted) : emitted[i].slot > s

(***************************************************************************)
(* Properties of the initialization sentinel                               *)
(***************************************************************************)
\* the step in which the composed stream takes BlockInfo::default(), the
\* frame with slot 0 the push stream yields at the start of a connection
TakesSentinel == connects' = connects + 1

C26_Step ==
    TakesSentinel => UNCHANGED <<last_indexed_slot, rpc_poll_stream, emitted>>

\* C26: in Push-only and in Push+Poll, whatever last_indexed_slot is and
\* after every reconnect, the push frame with slot 0 is discarded: it leaves
\* last_indexed_slot and the poll stream as they are and is not emitted.
C26_Sentinel == [][C26_Step]_vars

(***************************************************************************)
(* Properties of the poll stream's fetches                                 *)
(***************************************************************************)
\* the first slot the poll-only stream fetches
FirstSlot == StartSlot(config_last_indexed_slot, last_indexed_slot_at_start)

Times(s) == Cardinality({i \in 1..Len(emitted) : emitted[i].slot = s})

\* the slots whose fetch has been answered and whose window has been yielded
Answered ==
    IF rpc_poll_stream.on /\ rpc_poll_stream.phase = "top"
    THEN FirstSlot .. (rpc_poll_stream.current_slot_to_fetch - 1)
    ELSE {}

C27_Omitted ==
    /\ \A i \in 1..Len(emitted) : emitted[i].slot \in Existing
    /\ \A s \in rpc_poll_stream.inflight : s < rpc_poll_stream.current_slot_to_fetch
    /\ \A s \in Answered : Times(s) = IF get_block(s).ok THEN 1 ELSE 0

C27_Step ==
    (rpc_poll_stream.on /\ rpc_poll_stream'.on) =>
       /\ rpc_poll_stream'.current_slot_to_fetch >= rpc_poll_stream.current_slot_to_fetch
       /\ \A s \in rpc_poll_stream'.inflight \ rpc_poll_stream.inflight :
             s >= rpc_poll_stream.current_slot_to_fetch
       /\ \A s \in rpc_poll_stream.inflight :
             rpc_poll_stream'.attempt_counter[s] > rpc_poll_stream.attempt_counter[s]
                => /\ s \in rpc_poll_stream'.inflight
                   /\ rpc_poll_stream'.results = rpc_poll_stream.results

\* C27: a skipped slot is answered once and not asked for again, it is not
\* in the emitted sequence and the cursor is past it, and the other slots of
\* its window are emitted; a fetch that fails with another error stays in
\* flight for the same slot, so every existing block of an answered window
\* is emitted exactly once.
C27_SkippedSlots == []C27_Omitted /\ [][C27_Step]_vars

\* a window of two fetches has been yielded: one slot was skipped, the block
\* of the other was emitted after a failed attempt
C27_Witness ==
    /\ rpc_poll_stream.on /\ rpc_poll_stream.phase = "top"
    /\ Len(rpc_poll_stream.results) = 2
    /\ \E s, t \in Slots :
         /\ {s, t} = {rpc_poll_stream.current_slot_to_fetch - 2,
                      rpc_poll_stream.current_slot_to_fetch - 1}
         /\ s \notin Existing
         /\ rpc_poll_stream.attempt_counter[t] = MaxAttempts
         /\ Times(t) = 1
         /\ emitted[Len(emitted)].slot = t

C28_InFlight ==
    rpc_poll_stream.on =>
       /\ Cardinality(rpc_poll_stream.inflight) <= MaxConcurrentFetches
       /\ rpc_poll_stream.end_block_slot <= head
       /\ \A s \in rpc_poll_stream.inflight : s <= rpc_poll_stream.end_block_slot
       /\ rpc_poll_stream.blocks_to_yield # <<>> => rpc_poll_stream.inflight = {}

\* a block is emitted only when no fetch is in flight, and it is one of the
\* blocks the fetches of the window returned
C28_Step ==
    emitted' # emitted =>
       /\ rpc_poll_stream.inflight = {}
       /\ rpc_poll_stream'.inflight = {}
       /\ Len(emitted') = Len(emitted) + 1
       /\ \E k \in 1..Len(rpc_poll_stream.results) :
             /\ rpc_poll_stream.results[k].ok
             /\ rpc_poll_stream.results[k].block.slot = emitted'[Len(emitted')].slot

\* C28: at most max_concurrent_block_fetches fetches are in flight, no slot
\* above the head last read is requested, and no block of a window is
\* emitted before every fetch of the window has completed.
C28_PollWindow == []C28_InFlight /\ [][C28_Step]_vars

\* a full window was yielded whose last fetch to complete had failed once:
\* the block fetched first was emitted only after it
C28_Witness ==
    /\ rpc_poll_stream.on /\ rpc_poll_stream.phase = "top"
    /\ Len(rpc_poll_stream.results) = MaxConcurrentFetches
    /\ \A k \in 1..Len(rpc_poll_stream.results) : rpc_poll_stream.results[k].ok
    /\ LET last == rpc_poll_stream.results[Len(rpc_poll_stream.results)].block.slot
       IN  /\ rpc_poll_stream.attempt_counter[last] = MaxAttempts
           /\ Times(rpc_poll_stream.results[1].block.slot) = 1
           /\ Times(last) = 1

(***************************************************************************)
(* Properties of the worker pools                                          *)
(***************************************************************************)
\* the step in which a worker's database transaction fails
WorkerFails == db_failures' = db_failures + 1

\* worker w of a pool drops the chunk it was writing and is back at select
Drops(pool, w) ==
    /\ pool[w].pc = "write" /\ pool[w].chunk # <<>>
    /\ pool'[w] = [pc |-> "select", chunk |-> <<>>]
    /\ \A v \in Workers \ {w} : pool'[v] = pool[v]

C29_Step ==
    WorkerFails =>
       /\ UNCHANGED <<block_chan, txn_chan, block_rx_lock, txn_rx_lock, sent>>
       /\ UNCHANGED <<db_blocks, db_transfers>>
       /\ \/ (\E w \in Workers : Drops(block_workers, w)) /\ UNCHANGED txn_workers
          \/ (\E w \in Workers : Drops(txn_workers, w)) /\ UNCHANGED block_workers

\* C29: when the database transaction of a chunk fails, the worker drops the
\* chunk: nothing is written, nothing goes back on a channel, the worker is
\* at the head of its loop again, and the other workers, their chunks and
\* the channels are as they were.
C29_WorkerFailure == [][C29_Step]_vars

\* the metadata chunk of the first block failed and is gone for good; the
\* chunk of the second block was received and written after it
C29_Witness ==
    /\ db_failures = 1 /\ sent = Len(WriterBlocks)
    /\ block_chan = <<>>
    /\ \A w \in Workers : block_workers[w].pc = "select"
    /\ \E r \in db_blocks : r.slot = B2.metadata.slot
    /\ \A r \in db_blocks : r.slot # B1.metadata.slot

\* the workers of a pool that hold the receiver lock, inside recv
InRecv(pool) == {w \in Workers : pool[w].pc = "recv"}

\* the workers of a pool that have received a chunk and are writing it
Writing(pool) == {w \in Workers : pool[w].pc = "write"}

\* one holder of the lock at most, and no chunk in two places
Exclusive(pool, lock, chan) ==
    /\ Cardinality(InRecv(pool)) <= 1
    /\ InRecv(pool) = IF lock = 0 THEN {} ELSE {lock}
    /\ \A w \in Writing(pool) :
          /\ \A v \in Writing(pool) \ {w} : pool[v].chunk # pool[w].chunk
          /\ \A i \in 1..Len(chan) : chan[i] # pool[w].chunk

C30_Exclusive ==
    /\ Exclusive(block_workers, block_rx_lock, block_chan)
    /\ Exclusive(txn_workers, txn_rx_lock, txn_chan)

\* a chunk leaves a channel only as the head, to the one worker that holds
\* the lock, and nothing the workers do puts a chunk on a channel
Receives(pool, lock, chan) ==
    (chan' # chan /\ sent' = sent) =>
       /\ chan # <<>> /\ chan' = Tail(chan)
       /\ lock # 0 /\ lock' = 0
       /\ pool[lock].pc = "recv"
       /\ pool' = [pool EXCEPT ![lock] = [pc |-> "write", chunk |-> Head(chan)]]

C30_Step ==
    /\ Receives(block_workers, block_rx_lock, block_chan)
    /\ Receives(txn_workers, txn_rx_lock, txn_chan)

\* C30: in each pool at most one worker holds the receiver lock and is
\* inside recv, and a chunk put on a channel goes to one worker only: no two
\* workers hold the same chunk and a chunk being written is no longer on
\* its channel, whatever the interleaving and when the tasks are dropped.
C30_ReceiverSharing == []C30_Exclusive /\ [][C30_Step]_vars

\* two workers of the block pool are writing, each its own chunk, while a
\* worker of the transaction pool holds the lock and the other waits for it
C30_Witness ==
    /\ Cardinality(Writing(block_workers)) = 2
    /\ txn_rx_lock # 0
    /\ \E w \in Workers : txn_workers[w].pc = "select"

(***************************************************************************)
(* Properties of the chunks handed to the workers                          *)
(***************************************************************************)
\* the chunks a step appends to a channel
Pushed(chan, after) == SubSeq(after, Len(chan) + 1, Len(after))

\* the rows the insert of a chunk of transactions holds
TransferRows(chunk) == Len(TransferModels(chunk, now))

\* the chunks of a step that hands a batch over, Size(chunk) being what a
\* chunk of transactions is measured by
ChunkStep(Size(_)) ==
    sent' = sent + 1 =>
       LET block_batch == <<WriterBlocks[sent + 1]>>
           metas == Pushed(block_chan, block_chan')
           txns == Pushed(txn_chan, txn_chan')
       IN  /\ block_chan' = block_chan \o metas
           /\ txn_chan' = txn_chan \o txns
           /\ \A i \in 1..Len(metas) :
                 Len(metas[i]) >= 1 /\ Len(metas[i]) <= MAX_SQL_INSERTS
           /\ \A i \in 1..Len(txns) :
                 Size(txns[i]) >= 1 /\ Size(txns[i]) <= MAX_SQL_INSERTS
           /\ Concat(metas) = MetasOf(block_batch)
           /\ Range(Concat(txns)) = UpdateOf(block_batch)
           /\ Len(Concat(txns)) = Cardinality(UpdateOf(block_batch))
           /\ UpdateOf(block_batch) = DefaultStateUpdate => txns = <<>>

C31_Step == ChunkStep(TransferRows)

\* C31: every chunk pushed for a batch holds between 1 and MAX_SQL_INSERTS
\* rows, the chunks partition the batch (each block metadata and each merged
\* transaction in exactly one chunk), and an empty merged update pushes
\* nothing onto the transaction channel.
C31_Chunking == [][C31_Step]_vars

\* the same with a chunk measured by its transactions, not by its rows
ChunkedByTransaction == [][ChunkStep(Len)]_vars

(***************************************************************************)
(* Properties of the push subscription                                     *)
(***************************************************************************)
Subscribed == grpc_state \in {"streaming", "ping"}

C32_Step ==
    /\ grpc_state' \in {"start", "connect", "streaming", "ping"}
    /\ (Subscribed /\ ~Subscribed') => grpc_state' = "start"
    /\ grpc_state = "ping" =>
          /\ grpc_state' \in {"ping", "streaming", "start"}
          /\ UNCHANGED <<push_cursor, pushed>>
    /\ pushed' # pushed => grpc_state = "streaming"

\* C32: after a transport error or a failed ping reply the subscription is
\* torn down and the stream is back at the top of its loop, from where a
\* connection attempt is made again and again until one succeeds; a ping is
\* answered before another frame is taken; the stream never ends.
C32_PushRecovery ==
    /\ [][C32_Step]_vars
    /\ \A n \in 0..MaxConnects : (grpc_state = "start" /\ connects = n) ~> (connects > n)
    /\ (~Subscribed) ~> (grpc_state = "streaming")
    /\ (grpc_state = "ping") ~> (grpc_state # "ping")

\* after a failed connection attempt and an error on the subscription a
\* third attempt has succeeded and blocks are pushed again
C32_Witness ==
    /\ grpc_state = "streaming" /\ connects > MaxConnects
    /\ Cardinality(pushed) >= 2 /\ push_cursor \in pushed

(***************************************************************************)
(* parser.rs, grpc.rs: the block parsers of the poll and the push stream   *)
(***************************************************************************)
\* the account keys of a transaction (static keys, then loaded addresses):
\* an index i of a compiled instruction stands for AccountKeys[i + 1]
AccountKeys == <<"token", "a", "b">>

token_program_id == "token"

InBounds(i) == i < Len(AccountKeys)

Account(i) == AccountKeys[i + 1]

AllInBounds(indexes) == \A k \in 1..Len(indexes) : InBounds(indexes[k])

Accounts(indexes) == [k \in 1..Len(indexes) |-> Account(indexes[k])]

\* the push parser's filter_map: the accounts of the indexes in bounds
RECURSIVE AccountsInBounds(_)
AccountsInBounds(indexes) ==
    IF indexes = <<>> THEN <<>>
    ELSE IF InBounds(Head(indexes))
         THEN <<Account(Head(indexes))>> \o AccountsInBounds(Tail(indexes))
         ELSE AccountsInBounds(Tail(indexes))

\* instruction data by what TokenInstruction::unpack makes of it
TransferData(amount) == [kind |-> "Transfer", amount |-> amount]

ApproveData == [kind |-> "Approve", amount |-> 0]

IsTransfer(data) == data.kind = "Transfer"

\* a compiled instruction of a message or of the inner instructions
Compiled(program_id_index, accounts, data) ==
    [program_id_index |-> program_id_index, accounts |-> accounts, data |-> data]

find_associated_token_address(owner, mint, program_id) ==
    [owner |-> owner, mint |-> mint, program_id |-> program_id]

\* PollerParser::parse_instruction_groups, the loop over the inner
\* instructions: inner_accounts[0] and inner_accounts[1] are indexed
\* without a length check
RECURSIVE PollInner(_, _)
PollInner(inner, acc) ==
    IF inner = <<>> THEN Ok(acc)
    ELSE LET ui == Head(inner)
         IN  IF ~InBounds(ui.program_id_index)
             THEN Err("Inner program ID index out of bounds")
             ELSE IF ~AllInBounds(ui.accounts)
             THEN Err("Inner account index out of bounds")
             ELSE IF Account(ui.program_id_index) = token_program_id /\ IsTransfer(ui.data)
             THEN IF Len(ui.accounts) < 2
                  THEN Panic
                  ELSE PollInner(Tail(inner), Append(acc,
                         [program_id |-> Account(ui.program_id_index),
                          data |-> ui.data,
                          accounts |-> Accounts(ui.accounts),
                          source_address |-> Account(ui.accounts[1]),
                          destination_address |-> Account(ui.accounts[2]),
                          source_ata |-> None, destination_ata |-> None,
                          mint |-> None,
                          amount |-> ui.data.amount]))
             ELSE PollInner(Tail(inner), acc)

\* PollerParser::parse_instruction_groups, the loop over the instructions
RECURSIVE PollGroups(_, _, _)
PollGroups(ixs, tx, acc) ==
    IF ixs = <<>> THEN Ok(acc)
    ELSE LET ix == Head(ixs)
         IN  IF ~InBounds(ix.program_id_index)
             THEN Err("Program ID index out of bounds")
             ELSE IF ~AllInBounds(ix.accounts)
             THEN Err("Account index out of bounds")
             ELSE IF /\ Account(ix.program_id_index) = token_program_id
                     /\ Len(ix.accounts) >= 2
                     /\ IsTransfer(ix.data)
             THEN IF tx.post_token_balances = <<>>
                  THEN Err("Token balance not found")
                  ELSE LET mint == Head(tx.post_token_balances)
                           source_address == Account(ix.accounts[1])
                           destination_address == Account(ix.accounts[2])
                           inner == PollInner(tx.inner_instructions, <<>>)
                       IN  IF inner.kind # "Ok" THEN inner
                           ELSE PollGroups(Tail(ixs), tx, Append(acc,
                                  [outer_instruction |->
                                      [program_id |-> Account(ix.program_id_index),
                                       data |-> ix.data,
                                       accounts |-> AccountKeys,
                                       source_address |-> source_address,
                                       destination_address |-> destination_address,
                                       source_ata |-> Some(find_associated_token_address(
                                           source_address, mint, token_program_id)),
                                       destination_ata |-> Some(find_associated_token_address(
                                           destination_address, mint, token_program_id)),
                                       mint |-> Some(mint),
                                       amount |-> ix.data.amount],
                                   inner_instructions |-> inner.value[1]]))
             ELSE PollGroups(Tail(ixs), tx, acc)

parse_instruction_groups(tx) == PollGroups(tx.instructions, tx, <<>>)

\* the Transaction both parsers build from the groups: Ok(None) without groups
TransactionOf(groups, tx, slot, block_time) ==
    IF groups = <<>> THEN Ok(None)
    ELSE Ok(Some([instruction_groups |-> groups, signature |-> tx.signature,
                  error |-> None, slot |-> slot, block_time |-> block_time]))

\* PollerParser::parse_encoded_transaction
parse_encoded_transaction(tx, slot, block_time) ==
    IF ~tx.meta THEN Err("Missing metadata")
    ELSE LET groups == parse_instruction_groups(tx)
         IN  IF groups.kind # "Ok" THEN groups
             ELSE TransactionOf(groups.value[1], tx, slot, block_time)

\* GrpcStreamer::parse_transaction, the inner instructions of a group: every
\* inner instruction of the transaction, under the outer program and amount
PushInner(inner, outer, source_address, destination_address) ==
    [k \in 1..Len(inner) |->
        [program_id |-> Account(outer.program_id_index),
         data |-> inner[k].data,
         accounts |-> AccountsInBounds(inner[k].accounts),
         source_address |-> source_address,
         destination_address |-> destination_address,
         source_ata |-> None, destination_ata |-> None,
         mint |-> None,
         amount |-> outer.data.amount]]

\* GrpcStreamer::parse_transaction, the loop over the instructions
RECURSIVE PushGroups(_, _, _)
PushGroups(ixs, tx, acc) ==
    IF ixs = <<>> THEN Ok(acc)
    ELSE LET ix == Head(ixs)
         IN  IF ~InBounds(ix.program_id_index)
             THEN Err("Program ID index out of bounds")
             ELSE IF ~AllInBounds(ix.accounts)
             THEN Err("Account index out of bounds")
             ELSE IF /\ Account(ix.program_id_index) = token_program_id
                     /\ Len(ix.accounts) >= 2
                     /\ IsTransfer(ix.data)
             THEN IF tx.post_token_balances = <<>>
                  THEN Err("Token balance not found")
                  ELSE LET mint == Head(tx.post_token_balances)
                           program_id == Account(ix.program_id_index)
                           src_address == Account(ix.accounts[1])
                           dest_address == Account(ix.accounts[2])
                       IN  PushGroups(Tail(ixs), tx, Append(acc,
                              [outer_instruction |->
                                  [program_id |-> program_id,
                                   data |-> ix.data,
                                   accounts |-> Accounts(ix.accounts),
                                   source_address |-> src_address,
                                   destination_address |-> dest_address,
                                   source_ata |-> Some(find_associated_token_address(
                                       src_address, mint, program_id)),
                                   destination_ata |-> Some(find_associated_token_address(
                                       dest_address, mint, program_id)),
                                   mint |-> Some(mint),
                                   amount |-> ix.data.amount],
                               inner_instructions |->
                                  PushInner(tx.inner_instructions, ix,
                                            src_address, dest_address)]))
             ELSE PushGroups(Tail(ixs), tx, acc)

\* GrpcStreamer::parse_transaction
grpc_parse_transaction(tx, slot, block_time) ==
    IF ~tx.meta THEN Err("Missing metadata")
    ELSE LET groups == PushGroups(tx.instructions, tx, <<>>)
         IN  IF groups.kind # "Ok" THEN groups
             ELSE TransactionOf(groups.value[1], tx, slot, block_time)

\* map(parse).collect::<Result<Vec<_>, _>>() and the dropping of the None
\* values: the transactions in order, or the first error or panic met
RECURSIVE CollectTransactions(_, _)
CollectTransactions(results, acc) ==
    IF results = <<>> THEN Ok(acc)
    ELSE IF Head(results).kind # "Ok" THEN Head(results)
    ELSE CollectTransactions(Tail(results), acc \o Head(results).value[1])

\* PollerParser::parse_ui_confirmed_block
parse_ui_confirmed_block(block) ==
    IF block.block_time = None THEN Err("Missing block_time")
    ELSE LET transactions == CollectTransactions(
                 [k \in 1..Len(block.transactions) |->
                     parse_encoded_transaction(block.transactions[k], block.slot,
                                               block.block_time[1])], <<>>)
         IN  IF transactions.kind # "Ok" THEN transactions
             ELSE IF block.block_height = None THEN Err("Missing block_height")
             ELSE Ok([transactions |-> transactions.value[1],
                      metadata |-> Meta(block.slot, block.parent_slot,
                                        block.block_time[1], block.block_height[1])])

\* GrpcStreamer::parse_block: block_time and block_height are unwrapped
grpc_parse_block(block) ==
    IF block.block_time = None \/ block.block_height = None THEN Panic
    ELSE LET transactions == CollectTransactions(
                 [k \in 1..Len(block.transactions) |->
                     grpc_parse_transaction(block.transactions[k], block.slot,
                                            block.block_time[1])], <<>>)
         IN  IF transactions.kind # "Ok" THEN transactions
             ELSE Ok([transactions |-> transactions.value[1],
                      metadata |-> Meta(block.slot, block.parent_slot,
                                        block.block_time[1], block.block_height[1])])

\* the inner instructions of the inputs, at most this many per transaction
MaxInner == 2

\* outer instructions: a transfer a -> b, one with an account index out of
\* bounds, one with a program index out of bounds, one with a single
\* account, one of a program that is no token program, one that is no transfer
OuterInstructions ==
    {Compiled(0, <<1, 2>>, TransferData(5)), Compiled(0, <<1, 7>>, TransferData(5)),
     Compiled(3, <<1, 2>>, TransferData(5)), Compiled(0, <<1>>, TransferData(5)),
     Compiled(1, <<1, 2>>, TransferData(5)), Compiled(0, <<1, 2>>, ApproveData)}

\* inner instructions: a token transfer b -> a, one with a single account,
\* one of a program that is no token program, one that is no transfer, one
\* with an account index out of bounds
InnerInstructions ==
    {Compiled(0, <<2, 1>>, TransferData(3)), Compiled(0, <<1>>, TransferData(3)),
     Compiled(1, <<1, 2>>, TransferData(3)), Compiled(0, <<1, 2>>, ApproveData),
     Compiled(0, <<2, 7>>, TransferData(3))}

\* transactions of no or one instruction
RawTransactions ==
    [meta : BOOLEAN,
     post_token_balances : {<<>>, <<"m">>},
     instructions : {<<>>} \cup {<<ix>> : ix \in OuterInstructions},
     inner_instructions : UNION {[1..n -> InnerInstructions] : n \in 0..MaxInner},
     signature : {1}]

\* block frames and RPC blocks of no or one transaction
RawBlocks ==
    [slot : {1}, parent_slot : {0},
     block_time : {None, Some(10)},
     block_height : {None, Some(1)},
     transactions : {<<>>} \cup {<<tx>> : tx \in RawTransactions}]

\* the push stream or the poll stream parses the block it received
parse_block_call ==
    /\ ~parse_out.done
    /\ parse_out' = IF parse_in.parser = "push"
                    THEN grpc_parse_block(parse_in.block)
                    ELSE parse_ui_confirmed_block(parse_in.block)
    /\ UNCHANGED <<parse_in, merge_in, merge_out>>
    /\ UNCHANGED xmerge

InitParse ==
    /\ StreamIdle
    /\ DaoInit
    /\ WriterInit
    /\ ProcIdle
    /\ ApiIdle
    /\ merge_in = <<>> /\ merge_out = [done |-> FALSE, transactions |-> {}]
    /\ parse_in \in [parser : {"push", "poll"}, block : RawBlocks]
    /\ parse_out = [done |-> FALSE]

NextParse == parse_block_call

SpecParse == InitParse /\ [][NextParse]_vars

(***************************************************************************)
(* Properties of the parsers                                               *)
(***************************************************************************)
\* C33: no input makes a parser panic: whatever block the push or the poll
\* parser is handed, well-formed or malformed, it returns a block or a
\* ParserError value.
C33_NoPanic == parse_out.done => parse_out.kind # "Panic"

\* the malformed inputs that do come back as a ParserError value: a
\* transaction without metadata, an outer index out of bounds
OuterMalformed(tx) ==
    \/ ~tx.meta
    \/ \E k \in 1..Len(tx.instructions) :
          \/ ~InBounds(tx.instructions[k].program_id_index)
          \/ ~AllInBounds(tx.instructions[k].accounts)

ErrOnOuterMalformed ==
    /\ parse_out.done
    /\ parse_out.kind # "Panic"
    /\ \E k \in 1..Len(parse_in.block.transactions) :
          OuterMalformed(parse_in.block.transactions[k])
    => parse_out.kind = "Err"

\* the poll parser panics on an inner token transfer of a single account
PollParserPanics ==
    parse_out.done /\ parse_in.parser = "poll" /\ parse_out.kind = "Panic"

\* an inner instruction of a token program whose data decodes as Transfer
IsInnerTransfer(ui) ==
    /\ InBounds(ui.program_id_index)
    /\ Account(ui.program_id_index) = token_program_id
    /\ IsTransfer(ui.data)

\* the inner list a group is said to hold: the inner token transfers of the
\* transaction in their order, under the addresses of the outer instruction
ExpectedInner(tx, outer) ==
    LET transfers == SelectSeq(tx.inner_instructions, IsInnerTransfer)
    IN  [k \in 1..Len(transfers) |->
            [source_address |-> outer.source_address,
             destination_address |-> outer.destination_address,
             source_ata |-> None, destination_ata |-> None,
             accounts |-> Accounts(transfers[k].accounts),
             amount |-> transfers[k].data.amount]]

\* the fields of an inner list the comparison is about
InnerFields(inner) ==
    [k \in 1..Len(inner) |->
        [source_address |-> inner[k].source_address,
         destination_address |-> inner[k].destination_address,
         source_ata |-> inner[k].source_ata,
         destination_ata |-> inner[k].destination_ata,
         accounts |-> inner[k].accounts,
         amount |-> inner[k].amount]]

\* the groups of every transaction of a parsed block hold the expected list
InnerAsExpected(raw, parsed) ==
    \A t \in 1..Len(parsed.transactions) :
       \A g \in 1..Len(parsed.transactions[t].instruction_groups) :
          LET group == parsed.transactions[t].instruction_groups[g]
          IN  InnerFields(group.inner_instructions)
                 = ExpectedInner(raw.transactions[t], group.outer_instruction)

\* C34: the inner list of every transfer group holds exactly the inner token
\* transfers of the transaction, in order, each with the outer source and
\* destination, no ATA fields and its own accounts and amount; and the push
\* and the poll parser give the same transactions for the same block.
C34_InnerInstructions ==
    /\ parse_out.done /\ parse_out.kind = "Ok"
          => InnerAsExpected(parse_in.block, parse_out.value[1])
    /\ LET push == grpc_parse_block(parse_in.block)
           poll == parse_ui_confirmed_block(parse_in.block)
       IN  parse_out.done /\ push.kind = "Ok" /\ poll.kind = "Ok"
              => push.value[1].transactions = poll.value[1].transactions

\* what the poll parser keeps of it: the inner token transfers in order, each
\* with its own accounts and amount, under its own first two accounts
PollInnerOwnAddresses ==
    parse_out.done /\ parse_out.kind = "Ok" /\ parse_in.parser = "poll" =>
       \A t \in 1..Len(parse_out.value[1].transactions) :
          \A g \in 1..Len(parse_out.value[1].transactions[t].instruction_groups) :
             LET inner == parse_out.value[1].transactions[t].instruction_groups[g].inner_instructions
                 transfers == SelectSeq(parse_in.block.transactions[t].inner_instructions,
                                        IsInnerTransfer)
             IN  /\ Len(inner) = Len(transfers)
                 /\ \A k \in 1..Len(inner) :
                       /\ inner[k].accounts = Accounts(transfers[k].accounts)
                       /\ inner[k].amount = transfers[k].data.amount
                       /\ inner[k].source_address = inner[k].accounts[1]
                       /\ inner[k].destination_address = inner[k].accounts[2]
                       /\ inner[k].source_ata = None /\ inner[k].destination_ata = None

(***************************************************************************)
(* Properties of the committed block set                                   *)
(***************************************************************************)
\* Dao::fetch_last_indexed_slot: SELECT max(slot) FROM blocks
fetch_last_indexed_slot(blocks) ==
    IF blocks = {} THEN None ELSE Some(Max({b.slot : b \in blocks}))

Committed(slot) == \E b \in db_blocks : b.slot = slot

\* C35: the committed block set has no hole below its maximum: every block
\* handed to the writer with a slot below fetch_last_indexed_slot is itself
\* in the blocks table.
C35_NoHoles ==
    LET last == fetch_last_indexed_slot(db_blocks)
    IN  last # None =>
           \A b \in Handed : b.metadata.slot < last[1] => Committed(b.metadata.slot)

\* a hole made by the order of the workers alone, with no database failure
HoleWithoutFailure == ~C35_NoHoles /\ db_failures = 0

\* a hole that stays: nothing is queued or being written any more
HoleForGood ==
    /\ ~C35_NoHoles
    /\ block_chan = <<>>
    /\ \A w \in Workers : block_workers[w].pc # "write"

(***************************************************************************)
(* Properties of the offset arithmetic                                     *)
(***************************************************************************)
\* the offset the query is made with, (page - 1) * limit in 64 bits, exceeds
\* the bound (stated by division: the product is beyond the checker's integers)
QueryOffsetExceeds(options, bound) ==
    options.limit > 0 /\ Unwrap(options.page) - 1 > bound \div options.limit

\* C36: the offset check is exact: the product (page - 1) * limit neither
\* wraps around nor panics, so no page request that passes validation
\* reaches the query with an offset above 500 000.
C36_ExactOffset ==
    page_out.done =>
        /\ page_out.kind # "Panic"
        /\ (page_out.kind = "Ok" /\ IsSome(page_out.value[1].page)) =>
              ~QueryOffsetExceeds(page_out.value[1], MaxOffset)

\* where the 32-bit product is in range the check is exact
ExactWithinU32 ==
    (page_out.done /\ IsSome(page_in.page) /\ Unwrap(page_in.page) > 0
        /\ ~Mul32(Unwrap(page_in.page) - 1,
                  IF IsSome(page_in.limit) THEN Unwrap(page_in.limit) ELSE DefaultLimit).overflow) =>
        /\ page_out.kind # "Panic"
        /\ page_out.kind = "Ok" => ~QueryOffsetExceeds(page_out.value[1], MaxOffset)

(***************************************************************************)
(* Properties of the driver loop's arithmetic                              *)
(***************************************************************************)
\* the loop computes slot_indexed - last_indexed_slot_at_start for the i-th
\* block while finished_backfill is false, which it is at least as long as
\* no earlier block lay above last_indexed_slot_at_start (<= current_slot)
InBackfill(i) == \A j \in 1..(i - 1) : emitted[j].slot <= last_indexed_slot_at_start

\* C37: the unsigned subtractions of the driver loop never underflow: the
\* start slot is at most the head read at start-up, and every block for
\* which slot_indexed - last_indexed_slot_at_start is computed has a slot at
\* or above last_indexed_slot_at_start.
C37_NoUnderflow ==
    /\ last_indexed_slot_at_start <= head
    /\ \A i \in 1..Len(emitted) :
          InBackfill(i) => emitted[i].slot >= last_indexed_slot_at_start

\* poll-only mode: no block at all is delivered below the start
PollAboveStart ==
    /\ last_indexed_slot_at_start <= head
    /\ \A i \in 1..Len(emitted) : emitted[i].slot >= last_indexed_slot_at_start

\* gRPC mode with a configured start slot: no block is delivered below it
ConfiguredAboveStart ==
    config_last_indexed_slot # 0 =>
       /\ last_indexed_slot_at_start <= head
       /\ \A i \in 1..Len(emitted) : emitted[i].slot >= last_indexed_slot_at_start

(***************************************************************************)
(* Properties of send_block_batches                                        *)
(***************************************************************************)
\* a step that puts something on a channel or returns from send_block_batches
Sends == Len(block_chan') > Len(block_chan) \/ Len(txn_chan') > Len(txn_chan) \/ sent' # sent

C38_Step ==
    /\ Sends =>
          /\ sent' = sent + 1
          /\ block_chan' = block_chan \o
                 Chunks(MetasOf(<<WriterBlocks[sent + 1]>>), MAX_SQL_INSERTS)
          /\ txn_chan' = txn_chan \o Pushed(txn_chan, txn_chan')
          /\ Concat(Pushed(txn_chan, txn_chan'))
                 \in SeqsOf(UpdateOf(<<WriterBlocks[sent + 1]>>))
    /\ db_failures' # db_failures => UNCHANGED <<sent, block_chan, txn_chan>>

\* C38: send_block_batches returns after one round: every step of it hands
\* over the next block, with its metadata chunks enqueued once and its
\* merged transactions once; and a failed write of a worker changes nothing
\* on the sending side (it is neither re-sent nor reported).
C38_OneAttempt == [][C38_Step]_vars

\* both blocks were handed over and a worker's write has failed
C38_Witness == sent = Len(WriterBlocks) /\ db_failures > 0

(***************************************************************************)
(* Properties of the worker pool                                           *)
(***************************************************************************)
\* a worker holds a receiver lock only while it waits in recv
LockOnlyInRecv ==
    /\ \A w \in Workers : block_rx_lock = w => block_workers[w].pc = "recv"
    /\ \A w \in Workers : txn_rx_lock = w => txn_workers[w].pc = "recv"
    /\ \A w \in Workers : block_workers[w].pc = "write" => block_rx_lock # w
    /\ \A w \in Workers : txn_workers[w].pc = "write" => txn_rx_lock # w

\* the metadata chunks the driver sends
MetaChunks == {<<WriterBlocks[i].metadata>> : i \in 1..Len(WriterBlocks)}

QueuedFirst(chunk) == block_chan # <<>> /\ Head(block_chan) = chunk

ReceivedBy(chunk) ==
    \E w \in Workers : block_workers[w].pc = "write" /\ block_workers[w].chunk = chunk

\* C39: the worker pool neither deadlocks nor starves the queue: a receiver
\* lock is held only by a worker waiting in recv, never during a write, and
\* every chunk at the head of the block channel is eventually received by a
\* worker, as every chunk of the transaction channel is.
C39_WorkerPool ==
    /\ []LockOnlyInRecv
    /\ \A chunk \in MetaChunks : QueuedFirst(chunk) ~> ReceivedBy(chunk)
    /\ (txn_chan # <<>>) ~> (txn_chan = <<>>)

\* one worker writes a chunk while another holds the lock and receives the
\* next one, and both write at once
C39_Witness ==
    \E w1, w2 \in Workers :
       /\ w1 # w2
       /\ block_workers[w1].pc = "write" /\ block_workers[w1].chunk = <<WriterBlocks[1].metadata>>
       /\ block_workers[w2].pc = "write" /\ block_workers[w2].chunk = <<WriterBlocks[2].metadata>>

\* the step before: the second worker waits in recv with the lock while the
\* first one writes
WritesWhileOtherReceives ==
    \E w1, w2 \in Workers :
       /\ block_workers[w1].pc = "write" /\ block_workers[w2].pc = "recv"
       /\ block_rx_lock = w2

(***************************************************************************)
(* Properties of create_pagination on validated options                    *)
(***************************************************************************)
\* C40: create_pagination does not fail on the PageOptions validate_pagination
\* returns: Keyset with the before and after of the options when the page is
\* absent, Page with the page when it is present; and the response names the
\* page or the dates that were used, never both.
C40_CreatePagination ==
    (page_out.done /\ page_out.kind = "Ok") =>
       LET page == page_out.value[1]
           pagination == create_pagination(page)
           response == build_transaction_response(<<>>, page.limit, pagination)
       IN  /\ pagination.ok
           /\ page.page = None =>
                 /\ pagination.kind = "Keyset"
                 /\ pagination.before = page.before /\ pagination.after = page.after
           /\ page.page # None =>
                 /\ pagination.kind = "Page"
                 /\ pagination.page = Unwrap(page.page)
           /\ response.page = page.page
           /\ IsSome(response.before) <=> IsSome(page.before)
           /\ IsSome(response.after) <=> IsSome(page.after)
           /\ ~(IsSome(response.page) /\ (IsSome(response.before) \/ IsSome(response.after)))

\* a request for page 2 was validated and became Pagination::Page
C40_Witness ==
    /\ page_out.done /\ page_out.kind = "Ok"
    /\ page_in.page = Some(2)
    /\ create_pagination(page_out.value[1]).kind = "Page"
    /\ create_pagination(page_out.value[1]).page = 2

\* a request by dates was validated and became Pagination::Keyset
KeysetValidated ==
    /\ page_out.done /\ page_out.kind = "Ok"
    /\ page_in.page = None /\ page_in.before # None /\ page_in.after # None
    /\ create_pagination(page_out.value[1]).kind = "Keyset"

====
